---- MODULE Spec2Model ----
(***************************************************************************)
(* Yard layout editor (TinCanTed/YardLayout-ScaleDrawing): the layout      *)
(* data, its JSON form, shed rotation, the boundary distances of the       *)
(* interactive view and of the PDF export, and the nearest-point           *)
(* primitives in feet space.                                               *)
(*                                                                         *)
(* Numbers.  Every length is an integer number of quarter feet ("ticks"),  *)
(* so one foot is Ft(1) = 4.  The inputs are whole feet (rectangle sizes)  *)
(* and half feet, for which the halvings of the code (width / 2, the       *)
(* midpoint of an overlap) are exact in binary floating point as they are  *)
(* here; HalvesExact states that no halving of the model ever rounds.      *)
(***************************************************************************)
EXTENDS Integers, Sequences, FiniteSets, TLC

VARIABLES
    layout,     \* the LayoutData instance in memory
    file,       \* the JSON data of the layout file, NoFile before a save
    op,         \* the last operation that ran ("init" after construction)
    out,        \* what the last operation returned or wrote on the page
    rotations,  \* number of rotate_shed calls since construction
    shed0,      \* the shed as it was at construction
    geo,        \* arguments of the feet-space geometry helpers
    view,       \* LayoutCanvas: feet_to_pixel_ratio, px_per_ft, canvas size
    zooms,      \* number of zoom_in and of zoom_out calls since construction
    labels,     \* LayoutCanvas: _placed_label_bboxes and the drawn labels
    drag        \* LayoutCanvas: drag_data and the dragged canvas item

vars == <<layout, file, op, out, rotations, shed0, geo, view, zooms, labels, drag>>

\* the state of the canvas that a specification does not follow
canvasVars == <<view, zooms, labels, drag>>

-----------------------------------------------------------------------------
(* Bounds of the model *)

\* largest rectangle side, in feet, in the editing specification
MaxDim == 2
\* largest object position, in feet, in the editing specification
MaxPos == 2
\* largest width, height and position, in feet, in the storage specification
MaxStore == 1
\* bound on the number of rotate_shed calls
MaxRot == 4
\* largest coordinate, in half feet, of the geometry specification
MaxGeo == 3

-----------------------------------------------------------------------------
(* Values *)

\* Python's None; an Optional[float] that is set is Some(v)
None == <<>>
Some(v) == <<v>>
Val(o) == o[1]

\* n feet in ticks
Ft(n) == 4 * n

\* v / 2 of the code; every v the model halves is even (HalvesExact)
Half(v) == v \div 2

Max(a, b) == IF a >= b THEN a ELSE b
Min(a, b) == IF a <= b THEN a ELSE b
Abs(v) == IF v >= 0 THEN v ELSE -v

\* the file that was never written
NoFile == [nofile |-> TRUE]

-----------------------------------------------------------------------------
(* layout_data.py *)

RectangleObject(name, width, height, x, y) ==
    [name |-> name, width |-> width, height |-> height, x |-> x, y |-> y]

PointObject(name, x, y) ==
    [name |-> name, x |-> x, y |-> y]

LayoutData(front, back, left, right, house, shed, well, septic) ==
    [front |-> front, back |-> back, left |-> left, right |-> right,
     house |-> house, shed |-> shed, well |-> well, septic |-> septic]

\* dataclasses.asdict: a dict with one entry per field
asdict(o) == [f \in DOMAIN o |-> o[f]]

\* RectFromDict with the y of the data not passed on
RectFromDict_DropsY(d) ==
    RectangleObject(d.name, d.width, d.height,
                    IF "x" \in DOMAIN d THEN d.x ELSE None,
                    None)

\* RectangleObject(**d): x and y default to None
RectFromDict(d) ==
    RectangleObject(d.name, d.width, d.height,
                    IF "x" \in DOMAIN d THEN d.x ELSE None,
                    IF "y" \in DOMAIN d THEN d.y ELSE None)

\* PointObject(**d): x and y default to None
PointFromDict(d) ==
    PointObject(d.name,
                IF "x" \in DOMAIN d THEN d.x ELSE None,
                IF "y" \in DOMAIN d THEN d.y ELSE None)

\* include_rect with >= 0 for > 0
include_rect_AllowsZero(r) ==
    /\ r # None
    /\ r.x # None /\ r.y # None
    /\ r.width # None /\ r.height # None
    /\ Val(r.width) >= 0 /\ Val(r.height) >= 0

include_rect(r) ==
    /\ r # None
    /\ r.x # None /\ r.y # None
    /\ r.width # None /\ r.height # None
    /\ Val(r.width) > 0 /\ Val(r.height) > 0

include_point(p) ==
    p # None /\ p.x # None /\ p.y # None

to_dict(L) ==
    LET keys == {k \in {"house", "shed"} : include_rect(L[k])}
                \cup {k \in {"well", "septic"} : include_point(L[k])}
    IN  [boundary |-> [front |-> L.front, back |-> L.back,
                       left |-> L.left, right |-> L.right],
         objects  |-> [k \in keys |-> asdict(L[k])]]

from_dict(data) ==
    LET b == data.boundary
        o == data.objects
    IN  LayoutData(b.front, b.back, b.left, b.right,
                   IF "house" \in DOMAIN o THEN RectFromDict(o["house"]) ELSE None,
                   IF "shed" \in DOMAIN o THEN RectFromDict(o["shed"]) ELSE None,
                   IF "well" \in DOMAIN o THEN PointFromDict(o["well"]) ELSE None,
                   IF "septic" \in DOMAIN o THEN PointFromDict(o["septic"]) ELSE None)

-----------------------------------------------------------------------------
(* Storage specification: a layout is saved to its file and loaded back *)

StoreNums == {None} \cup {Some(Ft(d)) : d \in 0..MaxStore}

StoreSheds ==
    {None} \cup {RectangleObject("Shed", w, h, x, y) :
                    w \in StoreNums, h \in StoreNums, x \in StoreNums, y \in StoreNums}

\* the house: absent, unplaced, without a width, of width 0, of height 0, complete
StoreHouses ==
    {None,
     RectangleObject("House", Some(Ft(2)), Some(Ft(1)), None, None),
     RectangleObject("House", None, Some(Ft(1)), Some(0), Some(0)),
     RectangleObject("House", Some(0), Some(Ft(1)), Some(0), Some(Ft(1))),
     RectangleObject("House", Some(Ft(2)), Some(0), Some(0), Some(Ft(1))),
     RectangleObject("House", Some(Ft(2)), Some(Ft(1)), Some(0), Some(Ft(1)))}

StoreWells ==
    {None} \cup {PointObject("Well", x, y) : x \in StoreNums, y \in StoreNums}

\* the septic tank: absent, as the dataclass default, half placed, placed
StoreSeptics ==
    {None,
     PointObject("Septic Tank", None, None),
     PointObject("Septic Tank", Some(Ft(1)), None),
     PointObject("Septic Tank", Some(Ft(1)), Some(0))}

StoreLayouts ==
    {LayoutData(Ft(3), Ft(4), Ft(2), Ft(5), h, s, w, p) :
        h \in StoreHouses, s \in StoreSheds, w \in StoreWells, p \in StoreSeptics}

\* the geometry arguments while no geometry helper is being exercised
NoGeo == [kind |-> "none"]

\* no canvas is open, or the specification does not follow its state
NoCanvas ==
    /\ view = None
    /\ zooms = None
    /\ labels = None
    /\ drag = None

InitStore ==
    /\ layout \in StoreLayouts
    /\ file = NoFile
    /\ op = "init"
    /\ out = None
    /\ rotations = 0
    /\ shed0 = layout.shed
    /\ geo = NoGeo
    /\ NoCanvas

\* file_handler.save_layout_to_file / LayoutData.save_to_json
save_layout_to_file ==
    /\ file' = to_dict(layout)
    /\ op' = "save"
    /\ out' = None
    /\ UNCHANGED <<layout, rotations, shed0, geo, canvasVars>>

\* file_handler.load_layout_from_file / LayoutData.load_from_json
load_layout_from_file ==
    /\ file # NoFile
    /\ layout' = from_dict(file)
    /\ op' = "load"
    /\ out' = None
    /\ UNCHANGED <<file, rotations, shed0, geo, canvasVars>>

NextStore == save_layout_to_file \/ load_layout_from_file

SpecStore == InitStore /\ [][NextStore]_vars

-----------------------------------------------------------------------------
(* Claims on the storage specification *)

\* an object whose fields are all set and, for a rectangle, whose sides are positive
CompleteRect(r) ==
    /\ r # None
    /\ r.x # None /\ r.y # None /\ r.width # None /\ r.height # None
    /\ Val(r.width) >= 1 /\ Val(r.height) >= 1

PlacedPoint(p) == p # None /\ p.x # None /\ p.y # None

\* C1: serialising, deserialising and serialising again yields the same JSON
\* data, for every layout (objects absent, unplaced or of non-positive size
\* included); a load leaves a layout whose serialisation is the file.
C1_RoundTrip ==
    /\ to_dict(from_dict(to_dict(layout))) = to_dict(layout)
    /\ op = "load" => to_dict(layout) = file

\* C1 witness: a file written from a layout with an unplaced house was loaded
\* back, and a shed survived the round trip
C1_Witness ==
    /\ op = "load"
    /\ "shed" \in DOMAIN file.objects
    /\ "house" \notin DOMAIN file.objects
    /\ layout.shed # None /\ layout.house = None

\* C2: to_dict writes a rectangle exactly when it is present, placed and of
\* positive width and height, and a point exactly when it is present and
\* placed; from_dict yields None for every key the data lacks; so after a
\* save followed by a load every object is either None or complete.
C2_OmitIncomplete ==
    /\ \A k \in {"house", "shed"} :
          k \in DOMAIN to_dict(layout).objects <=> CompleteRect(layout[k])
    /\ \A k \in {"well", "septic"} :
          k \in DOMAIN to_dict(layout).objects <=> PlacedPoint(layout[k])
    /\ \A k \in {"house", "shed", "well", "septic"} :
          k \notin DOMAIN to_dict(layout).objects =>
              from_dict(to_dict(layout))[k] = None
    /\ op = "load" =>
          /\ \A k \in {"house", "shed", "well", "septic"} :
                k \notin DOMAIN file.objects => layout[k] = None
          /\ \A k \in {"house", "shed"} : layout[k] = None \/ CompleteRect(layout[k])
          /\ \A k \in {"well", "septic"} : layout[k] = None \/ PlacedPoint(layout[k])

\* C2 witness: the file of a layout whose shed had no positive width was
\* loaded: the shed is None in memory, the placed well is kept
C2_Witness ==
    /\ op = "load"
    /\ shed0 # None /\ ~CompleteRect(shed0)
    /\ layout.shed = None
    /\ layout.well # None

-----------------------------------------------------------------------------
(* layout_canvas.py: shed rotation and the shed's boundary distances *)

\* RotatedShed that keeps the corner (x, y) instead of the centre
RotatedShed_CornerPivot(L) ==
    LET shed == L.shed
    IN  RectangleObject(shed.name, shed.height, shed.width, shed.x, shed.y)

\* RotatedShed whose last flip of y forgets the shed's height
RotatedShed_FlipWithoutHeight(L) ==
    LET shed     == L.shed
        real_y   == L.left - Val(shed.y) - Val(shed.height)
        center_x == Val(shed.x) + Half(Val(shed.width))
        center_y == real_y + Half(Val(shed.height))
        width2   == Val(shed.height)
        height2  == Val(shed.width)
        x2       == center_x - Half(width2)
        real_y2  == center_y - Half(height2)
        y2       == L.left - real_y2
    IN  RectangleObject(shed.name, Some(width2), Some(height2), Some(x2), Some(y2))

\* RotatedShed without the swap of width and height
RotatedShed_NoSwap(L) ==
    LET shed     == L.shed
        real_y   == L.left - Val(shed.y) - Val(shed.height)
        center_x == Val(shed.x) + Half(Val(shed.width))
        center_y == real_y + Half(Val(shed.height))
        width2   == Val(shed.width)
        height2  == Val(shed.height)
        x2       == center_x - Half(width2)
        real_y2  == center_y - Half(height2)
        y2       == L.left - real_y2 - height2
    IN  RectangleObject(shed.name, Some(width2), Some(height2), Some(x2), Some(y2))

\* the shed after rotate_shed has run to its end on layout L
RotatedShed(L) ==
    LET shed     == L.shed
        real_y   == L.left - Val(shed.y) - Val(shed.height)
        center_x == Val(shed.x) + Half(Val(shed.width))
        center_y == real_y + Half(Val(shed.height))
        width2   == Val(shed.height)
        height2  == Val(shed.width)
        x2       == center_x - Half(width2)
        real_y2  == center_y - Half(height2)
        y2       == L.left - real_y2 - height2
    IN  RectangleObject(shed.name, Some(width2), Some(height2), Some(x2), Some(y2))

\* how a call of rotate_shed ends: "AttributeError" without a shed,
\* "return" for an unplaced shed, "TypeError" when a side is None, else "done"
RotateOutcome(L) ==
    IF L.shed = None THEN "AttributeError"
    ELSE IF L.shed.x = None \/ L.shed.y = None THEN "return"
    ELSE IF L.shed.height = None \/ L.shed.width = None THEN "TypeError"
    ELSE "done"

\* _shed_distances_ft measuring the right distance against layout.right
_shed_distances_ft_UsesRight(L) ==
    LET s == L.shed
    IN  IF s = None \/ s.x = None \/ s.y = None \/ s.width = None \/ s.height = None
        THEN None
        ELSE LET left_ft  == Max(0, Val(s.x))
                 right_ft == Max(0, L.right - (Val(s.x) + Val(s.width)))
                 front_ft == Max(0, Val(s.y))
                 back_ft  == Max(0, L.left - (Val(s.y) + Val(s.height)))
             IN  <<left_ft, right_ft, front_ft, back_ft>>

_shed_distances_ft(L) ==
    LET s == L.shed
    IN  IF s = None \/ s.x = None \/ s.y = None \/ s.width = None \/ s.height = None
        THEN None
        ELSE LET left_ft  == Max(0, Val(s.x))
                 right_ft == Max(0, L.front - (Val(s.x) + Val(s.width)))
                 front_ft == Max(0, Val(s.y))
                 back_ft  == Max(0, L.left - (Val(s.y) + Val(s.height)))
             IN  <<left_ft, right_ft, front_ft, back_ft>>

-----------------------------------------------------------------------------
(* layout_canvas.py and print_export.py: the scale of the two views.       *)
(* A scale is a fraction <<n, d>> in lowest terms with d > 0, so that the  *)
(* products and quotients of the code are exact.                           *)

RECURSIVE GCD(_, _)
GCD(a, b) == IF b = 0 THEN a ELSE GCD(b, a % b)

Fraction(n, d) ==
    LET s == IF d < 0 THEN -1 ELSE 1
        g == GCD(Abs(n), Abs(d))
    IN  <<(s * n) \div g, (s * d) \div g>>

FracMul(a, b) == Fraction(a[1] * b[1], a[2] * b[2])
FracDiv(a, b) == Fraction(a[1] * b[2], a[2] * b[1])
FracLeq(a, b) == a[1] * b[2] <= b[1] * a[2]
FracMin(a, b) == IF FracLeq(a, b) THEN a ELSE b
FracMax(a, b) == IF FracLeq(a, b) THEN b ELSE a

\* int(f) of Python: truncation towards zero
IntOf(f) == IF f[1] >= 0 THEN f[1] \div f[2] ELSE -((-f[1]) \div f[2])

\* a length of t ticks, in feet
Feet(t) == Fraction(t, 4)

ZOOM == Fraction(12, 10)
MARGIN_PX == 20
canvas_display_width == 850
canvas_display_height == 650

\* the factor of zoom_in and zoom_out
ZoomStep == Fraction(11, 10)

\* LayoutCanvas.__init__: the scale of the window and the size of its canvas
LayoutCanvas_ScaleWithMax(L) ==
    LET scale_x == FracDiv(Fraction(canvas_display_width, 1), Feet(L.front))
        scale_y == FracDiv(Fraction(canvas_display_height, 1), Feet(L.left))
    IN  FracMul(FracMax(scale_x, scale_y), ZOOM)

LayoutCanvas_Scale(L) ==
    LET scale_x == FracDiv(Fraction(canvas_display_width, 1), Feet(L.front))
        scale_y == FracDiv(Fraction(canvas_display_height, 1), Feet(L.left))
    IN  FracMul(FracMin(scale_x, scale_y), ZOOM)

\* LayoutCanvas.update_canvas_dimensions, and the same lines of __init__
update_canvas_dimensions(L, v) ==
    [v EXCEPT !.canvas_width  = IntOf(FracMul(Feet(L.front), v.feet_to_pixel_ratio)),
              !.canvas_height = IntOf(FracMul(Feet(L.left), v.feet_to_pixel_ratio))]

LayoutCanvas(L) ==
    update_canvas_dimensions(L,
        [feet_to_pixel_ratio |-> LayoutCanvas_Scale(L),
         px_per_ft           |-> LayoutCanvas_Scale(L),
         canvas_width        |-> 0,
         canvas_height       |-> 0])

\* export_to_pdf: landscape letter in points, its margin and legend strip
page_width == 792
page_height == 612
margin == 36
legend_height == 60

export_scale(L) ==
    LET scale_x == FracDiv(Fraction(page_width - 2 * margin, 1), Feet(L.front))
        scale_y == FracDiv(Fraction(page_height - 2 * margin - legend_height, 1),
                           Feet(L.left))
    IN  FracMin(scale_x, scale_y)

-----------------------------------------------------------------------------
(* Feet-space geometry helpers of layout_canvas.py and their copies in      *)
(* print_export.py; a rectangle is <<L, T, R, B>> with a top-based y        *)

\* _nearest_rect_point_ft with min and max interchanged
_nearest_rect_point_ft_SwappedClamp(rect, px, py) ==
    LET L == rect[1]
        T == rect[2]
        R == rect[3]
        B == rect[4]
        qx == Max(Min(px, L), R)
        qy == Max(Min(py, T), B)
    IN  <<qx, qy, px, py>>

_nearest_rect_point_ft(rect, px, py) ==
    LET L == rect[1]
        T == rect[2]
        R == rect[3]
        B == rect[4]
        qx == Min(Max(px, L), R)
        qy == Min(Max(py, T), B)
    IN  <<qx, qy, px, py>>

\* the copy inside export_to_pdf
nearest_rect_point_ft(rect, px, py) ==
    LET L == rect[1]
        T == rect[2]
        R == rect[3]
        B == rect[4]
        qx == Min(Max(px, L), R)
        qy == Min(Max(py, T), B)
    IN  <<qx, qy, px, py>>

\* one axis of the rectangle pair: <<delta, a, b>> for the intervals
\* [lo_a, hi_a] and [lo_b, hi_b]
AxisNearest(lo_a, hi_a, lo_b, hi_b) ==
    IF hi_a < lo_b THEN <<lo_b - hi_a, hi_a, lo_b>>
    ELSE IF hi_b < lo_a THEN <<lo_a - hi_b, lo_a, hi_b>>
    ELSE LET m == IF Min(hi_a, hi_b) >= Max(lo_a, lo_b)
                  THEN Max(lo_a, lo_b)
                  ELSE Half(lo_a + hi_a)
         IN  <<0, m, m>>

\* _nearest_rect_rect_ft taking the overlap fallback when either delta is 0
_nearest_rect_rect_ft_EitherAxis(A, Bx) ==
    LET LA == A[1]
        TA == A[2]
        RA == A[3]
        BA == A[4]
        LB == Bx[1]
        TB == Bx[2]
        RB == Bx[3]
        BB == Bx[4]
        h == AxisNearest(LA, RA, LB, RB)
        v == AxisNearest(TA, BA, TB, BB)
    IN  IF h[1] = 0 \/ v[1] = 0
        THEN LET ax == Half(Max(LA, LB) + Min(RA, RB))
             IN  <<ax, Max(TA, TB), ax, Max(TA, TB)>>
        ELSE <<h[2], v[2], h[3], v[3]>>

_nearest_rect_rect_ft(A, Bx) ==
    LET LA == A[1]
        TA == A[2]
        RA == A[3]
        BA == A[4]
        LB == Bx[1]
        TB == Bx[2]
        RB == Bx[3]
        BB == Bx[4]
        h == AxisNearest(LA, RA, LB, RB)
        v == AxisNearest(TA, BA, TB, BB)
    IN  IF h[1] = 0 /\ v[1] = 0
        THEN LET ax == Half(Max(LA, LB) + Min(RA, RB))
             IN  <<ax, Max(TA, TB), ax, Max(TA, TB)>>
        ELSE <<h[2], v[2], h[3], v[3]>>

\* the copy inside export_to_pdf: no deltas, the overlap is recognised by
\* equal coordinates and x is left as the axis step chose it
nearest_rect_rect_ft(A, Bx) ==
    LET LA == A[1]
        TA == A[2]
        RA == A[3]
        BA == A[4]
        LB == Bx[1]
        TB == Bx[2]
        RB == Bx[3]
        BB == Bx[4]
        h == AxisNearest(LA, RA, LB, RB)
        v == AxisNearest(TA, BA, TB, BB)
    IN  IF h[2] = h[3] /\ v[2] = v[3]
        THEN <<h[2], Max(TA, TB), h[3], Max(TA, TB)>>
        ELSE <<h[2], v[2], h[3], v[3]>>

\* LayoutCanvas._rect_ft: <<L, T, R, B>> of a rectangle, top-based
_rect_ft(L, obj) ==
    <<Val(obj.x), L.left - (Val(obj.y) + Val(obj.height)),
      Val(obj.x) + Val(obj.width), L.left - Val(obj.y)>>

\* the copy inside export_to_pdf
rect_ft(obj, yard_height_ft) ==
    <<Val(obj.x), yard_height_ft - (Val(obj.y) + Val(obj.height)),
      Val(obj.x) + Val(obj.width), yard_height_ft - Val(obj.y)>>

\* the steps of a shed-distance block: a step is skipped, raises a
\* TypeError (arithmetic on None) or draws the line <<x1, y1, x2, y2>>
Skipped == [kind |-> "skip"]
Raised == [kind |-> "TypeError"]
Line(to, seg) == [kind |-> "line", to |-> to, seg |-> seg]

\* the lines drawn before the first step that raises, and whether one did
RunSteps(steps) ==
    LET raising == {i \in 1..Len(steps) : steps[i].kind = "TypeError"}
        stop    == IF raising = {} THEN Len(steps) + 1
                   ELSE CHOOSE i \in raising : \A j \in raising : i <= j
    IN  [raised |-> raising # {},
         lines  |-> SelectSeq(SubSeq(steps, 1, stop - 1),
                              LAMBDA st : st.kind = "line")]

\* the test "obj and obj.x is not None" of the shed-distance blocks
HasX(obj) == obj # None /\ obj.x # None

\* LayoutCanvas._draw_shed_object_distances: shed to well, septic, house
_draw_shed_object_distances(L) ==
    IF ~HasX(L.shed) THEN [raised |-> FALSE, lines |-> <<>>]
    ELSE IF L.shed.y = None \/ L.shed.width = None \/ L.shed.height = None
    THEN [raised |-> TRUE, lines |-> <<>>]
    ELSE LET S == _rect_ft(L, L.shed)
             point(o, to) ==
                 IF ~HasX(o) THEN Skipped
                 ELSE IF o.y = None THEN Raised
                 ELSE Line(to, _nearest_rect_point_ft(S, Val(o.x), L.left - Val(o.y)))
             rect(o, to) ==
                 IF ~HasX(o) THEN Skipped
                 ELSE IF o.y = None \/ o.width = None \/ o.height = None THEN Raised
                 ELSE Line(to, _nearest_rect_rect_ft(S, _rect_ft(L, o)))
         IN  RunSteps(<<point(L.well, "well"), point(L.septic, "septic"),
                        rect(L.house, "house")>>)

\* the block "Object-to-object distances from Shed" of export_to_pdf
export_shed_distances(L) ==
    IF ~HasX(L.shed) THEN [raised |-> FALSE, lines |-> <<>>]
    ELSE IF L.shed.y = None \/ L.shed.width = None \/ L.shed.height = None
    THEN [raised |-> TRUE, lines |-> <<>>]
    ELSE LET S == rect_ft(L.shed, L.left)
             point(o, to) ==
                 IF ~HasX(o) THEN Skipped
                 ELSE IF o.y = None THEN Raised
                 ELSE Line(to, nearest_rect_point_ft(S, Val(o.x), L.left - Val(o.y)))
             rect(o, to) ==
                 IF ~HasX(o) THEN Skipped
                 ELSE IF o.y = None \/ o.width = None \/ o.height = None THEN Raised
                 ELSE Line(to, nearest_rect_rect_ft(S, rect_ft(o, L.left)))
         IN  RunSteps(<<point(L.well, "well"), point(L.septic, "septic"),
                        rect(L.house, "house")>>)

-----------------------------------------------------------------------------
(* print_export.py: the shed measurements of the exported page *)

\* f"{v:.1f}": v feet in tenths of a foot, a tie rounded to the even tenth
fmt1(v) ==
    LET n == 5 * v
    IN  IF n % 2 = 0 THEN n \div 2
        ELSE LET lo == (n - 1) \div 2
             IN  IF lo % 2 = 0 THEN lo ELSE lo + 1

rect_nearest_distances_ft(obj, yard_width_ft, yard_height_ft) ==
    LET left_ft  == Val(obj.x)
        right_ft == yard_width_ft - (Val(obj.x) + Val(obj.width))
        front_ft == Val(obj.y)
        back_ft  == yard_height_ft - (Val(obj.y) + Val(obj.height))
    IN  <<left_ft, right_ft, back_ft, front_ft>>

\* the labels of the four dimension lines and the returned distances,
\* None when the rectangle lacks a field
draw_rect_measurements(obj, yard_width_ft, yard_height_ft) ==
    IF obj = None \/ obj.x = None \/ obj.y = None
       \/ obj.width = None \/ obj.height = None
    THEN None
    ELSE LET d == rect_nearest_distances_ft(obj, yard_width_ft, yard_height_ft)
         IN  [Left |-> fmt1(d[1]), Right |-> fmt1(d[2]),
              Back |-> fmt1(d[3]), Front |-> fmt1(d[4]), dists |-> d]

\* export_to_pdf raises before the page is written: a zero extent divides by
\* zero, and the shed-distance block does arithmetic on None
ExportRaises(L) ==
    \/ L.front = 0 \/ L.left = 0
    \/ /\ L.shed # None /\ L.shed.x # None
       /\ \/ L.shed.y = None \/ L.shed.width = None \/ L.shed.height = None
          \/ L.well # None /\ L.well.x # None /\ L.well.y = None
          \/ L.septic # None /\ L.septic.x # None /\ L.septic.y = None
          \/ /\ L.house # None /\ L.house.x # None
             /\ L.house.y = None \/ L.house.width = None \/ L.house.height = None

\* the page: the labels of the shed's dimension lines and the legend's
\* "Shed distances" block, in tenths of a foot
PdfPage(L) ==
    IF ExportRaises(L) THEN [raised |-> TRUE]
    ELSE LET m == IF L.shed # None
                  THEN draw_rect_measurements(L.shed, L.front, L.left)
                  ELSE None
         IN  [raised |-> FALSE,
              scale  |-> export_scale(L),
              objdist |-> export_shed_distances(L).lines,
              dim    |-> IF m = None THEN None
                         ELSE [Left |-> m.Left, Right |-> m.Right,
                               Back |-> m.Back, Front |-> m.Front],
              legend |-> IF m = None THEN None
                         ELSE [Left |-> fmt1(m.dists[1]), Right |-> fmt1(m.dists[2]),
                               Back |-> fmt1(m.dists[3]), Front |-> fmt1(m.dists[4])]]

-----------------------------------------------------------------------------
(* Editing specification: a layout is open in the LayoutCanvas *)

EditPos == {None} \cup {Some(Ft(p)) : p \in -1..MaxPos}

EditSheds ==
    {None,
     RectangleObject("Shed", None, Some(Ft(1)), Some(0), Some(0)),
     RectangleObject("Shed", Some(Ft(1)), None, Some(0), Some(0))}
    \cup {RectangleObject("Shed", Some(Ft(w)), Some(Ft(h)), x, y) :
            w \in 0..MaxDim, h \in 0..MaxDim, x \in EditPos, y \in EditPos}

EditHouses ==
    {None,
     RectangleObject("House", Some(Ft(1)), Some(Ft(1)), Some(Ft(1)), Some(0)),
     RectangleObject("House", Some(Ft(1)), Some(Ft(1)), Some(Ft(1)), None)}

EditWells ==
    {None,
     PointObject("Well", Some(Ft(2)), Some(Ft(1))),
     PointObject("Well", Some(Ft(2)), None)}

EditSeptics ==
    {None, PointObject("Septic Tank", Some(0), Some(Ft(2)))}

\* the example of the specification: property 100 x 80, shed 20 x 10 at (10, 5)
ExampleLayout ==
    LayoutData(Ft(100), Ft(100), Ft(80), Ft(80), None,
               RectangleObject("Shed", Some(Ft(20)), Some(Ft(10)),
                               Some(Ft(10)), Some(Ft(5))),
               None, None)

EditLayouts ==
    {ExampleLayout}
    \cup {LayoutData(Ft(MaxPos + 1), Ft(4), left, Ft(5), h, s, w, p) :
            left \in {Ft(MaxPos), Ft(MaxPos + 1)},
            h \in EditHouses, s \in EditSheds, w \in EditWells, p \in EditSeptics}

\* the window is opened on a layout that was just saved or loaded
Init ==
    /\ layout \in EditLayouts
    /\ file = to_dict(layout)
    /\ op = "init"
    /\ out = None
    /\ rotations = 0
    /\ shed0 = layout.shed
    /\ geo = NoGeo
    /\ NoCanvas

\* LayoutCanvas.rotate_shed, bound to the "r" key and to the rotate glyph
rotate_shed ==
    /\ rotations < MaxRot
    /\ op' = "rotate_shed"
    /\ out' = RotateOutcome(layout)
    /\ IF RotateOutcome(layout) = "done"
       THEN /\ layout' = [layout EXCEPT !.shed = RotatedShed(layout)]
            /\ rotations' = rotations + 1
       ELSE UNCHANGED <<layout, rotations>>
    /\ UNCHANGED <<file, shed0, geo, canvasVars>>

\* a call of LayoutCanvas._shed_distances_ft
shed_distances ==
    /\ op' = "_shed_distances_ft"
    /\ out' = _shed_distances_ft(layout)
    /\ UNCHANGED <<layout, file, rotations, shed0, geo, canvasVars>>

\* print_export.export_to_pdf on the layout of the window
export_to_pdf ==
    /\ op' = "export_to_pdf"
    /\ out' = PdfPage(layout)
    /\ UNCHANGED <<layout, file, rotations, shed0, geo, canvasVars>>

Next == rotate_shed \/ shed_distances \/ export_to_pdf

Spec == Init /\ [][Next]_vars

-----------------------------------------------------------------------------
(* Claims on the editing specification *)

\* a shed that is present with all four of x, y, width and height set
FullShed(L) ==
    /\ L.shed # None
    /\ L.shed.x # None /\ L.shed.y # None
    /\ L.shed.width # None /\ L.shed.height # None

\* (width, height, x, y) of a rectangle
Geometry(r) == <<Val(r.width), Val(r.height), Val(r.x), Val(r.y)>>

\* every halving of rotate_shed is exact
HalvesExact ==
    FullShed(layout) =>
        Val(layout.shed.width) % 2 = 0 /\ Val(layout.shed.height) % 2 = 0

\* C3: one rotate_shed of a placed shed swaps the shed's width and height and
\* keeps its centre where it was, x + width/2 and y + height/2 (y measured
\* from the front), for every property height; nothing else in the layout
\* changes.
C3_RotateKeepsCentre ==
    [][(op' = "rotate_shed" /\ FullShed(layout)) =>
          LET s == layout.shed
              t == layout'.shed
          IN  /\ out' = "done"
              /\ FullShed(layout')
              /\ Val(t.width) = Val(s.height)
              /\ Val(t.height) = Val(s.width)
              /\ 2 * Val(t.x) + Val(t.width) = 2 * Val(s.x) + Val(s.width)
              /\ 2 * Val(t.y) + Val(t.height) = 2 * Val(s.y) + Val(s.height)
              /\ t.name = s.name
              /\ \A f \in DOMAIN layout \ {"shed"} : layout'[f] = layout[f]]_vars

\* C3 witness: a shed that is not square was rotated once, next to a house
C3_Witness ==
    /\ op = "rotate_shed" /\ out = "done" /\ rotations = 1
    /\ shed0.width # shed0.height
    /\ layout.shed.width = shed0.height /\ layout.shed.x # shed0.x
    /\ layout.house # None

\* C4: four rotate_shed calls in a row return the shed's width, height, x and
\* y to their original values.
C4_FourRotations ==
    rotations = 4 => Geometry(layout.shed) = Geometry(shed0)

\* C4 witness: the fourth rotation of a shed that is not square has run
C4_Witness ==
    /\ rotations = 4 /\ op = "rotate_shed" /\ out = "done"
    /\ shed0.width # shed0.height
    /\ layout.shed = shed0

\* C5 as claimed: after 1, 2 or 3 rotations of a placed shed (width, height,
\* x, y) differs from the original values; stated here for the sheds with
\* positive and different sides only, for which one rotation does differ.
C5_Original ==
    (rotations \in 1..3 /\ CompleteRect(shed0) /\ shed0.width # shed0.height) =>
        Geometry(layout.shed) # Geometry(shed0)

\* C5 as amended: after 1 or 3 rotations of a shed whose width and height
\* differ, (width, height, x, y) differs from the original (the sides are
\* interchanged); after 2 rotations the original values are already back.
C5_Amended ==
    /\ (rotations \in {1, 3} /\ shed0.width # shed0.height) =>
          /\ Geometry(layout.shed) # Geometry(shed0)
          /\ layout.shed.width = shed0.height
          /\ layout.shed.height = shed0.width
    /\ rotations = 2 => Geometry(layout.shed) = Geometry(shed0)

\* C5 witness: the second rotation of a shed that is not square has run and
\* the shed is as it was
C5_Witness ==
    /\ rotations = 2 /\ op = "rotate_shed" /\ out = "done"
    /\ shed0.width # shed0.height
    /\ layout.shed = shed0

\* d is max(0, v)
IsClamped(d, v) == d >= 0 /\ d >= v /\ (d = 0 \/ d = v)

\* C6: for a placed shed _shed_distances_ft returns (left, right, front, back)
\* = (max(0, x), max(0, front - (x + width)), max(0, y),
\* max(0, left - (y + height))): no component is negative and an exceeded edge
\* gives 0; the property 100 x 80 with a shed 20 x 10 at (10, 5) gives
\* 10, 70, 5, 65.  It returns None when the shed is absent or one of x, y,
\* width, height is unset.
C6_ShedDistances ==
    op = "_shed_distances_ft" =>
        /\ FullShed(layout) =>
              LET s == layout.shed
              IN  /\ Len(out) = 4
                  /\ IsClamped(out[1], Val(s.x))
                  /\ IsClamped(out[2], layout.front - Val(s.x) - Val(s.width))
                  /\ IsClamped(out[3], Val(s.y))
                  /\ IsClamped(out[4], layout.left - Val(s.y) - Val(s.height))
        /\ ~FullShed(layout) => out = None
        /\ layout = ExampleLayout => out = <<Ft(10), Ft(70), Ft(5), Ft(65)>>

\* C6 witness: the distances of a shed that sticks out over the left and the
\* back line of the property were computed
C6_Witness ==
    /\ op = "_shed_distances_ft"
    /\ FullShed(layout)
    /\ Val(layout.shed.x) < 0
    /\ Val(layout.shed.y) + Val(layout.shed.height) > layout.left
    /\ out[1] = 0 /\ out[4] = 0 /\ out[2] > 0

\* C7: the shed distances that export_to_pdf prints on the dimension lines
\* and in the legend are never negative; an exceeded edge is printed as 0.
\* Stated here for the sheds with positive sides.
C7_ExportNonNegative ==
    (/\ op = "export_to_pdf" /\ ~out.raised /\ out.dim # None
     /\ CompleteRect(layout.shed)) =>
        \A side \in {"Left", "Right", "Back", "Front"} :
            out.dim[side] >= 0 /\ out.legend[side] >= 0

-----------------------------------------------------------------------------
(* Geometry specification: the helpers applied to rectangles and points *)

\* coordinates in ticks: the half feet 0 .. MaxGeo/2
GeoCoords == {2 * k : k \in 0..MaxGeo}

\* the well-formed rectangles
GeoRects ==
    {r \in GeoCoords \X GeoCoords \X GeoCoords \X GeoCoords :
        r[1] <= r[3] /\ r[2] <= r[4]}

\* the example of the specification, in feet
ExampleA == <<Ft(0), Ft(0), Ft(10), Ft(10)>>
ExampleB == <<Ft(20), Ft(0), Ft(30), Ft(10)>>

GeoInputs ==
    {[kind |-> "rect_point", A |-> r, px |-> x, py |-> y] :
        r \in GeoRects, x \in GeoCoords, y \in GeoCoords}
    \cup {[kind |-> "rect_rect", A |-> a, Bx |-> b] : a \in GeoRects, b \in GeoRects}
    \cup {[kind |-> "rect_rect", A |-> ExampleA, Bx |-> ExampleB]}

InitGeo ==
    /\ geo \in GeoInputs
    /\ layout = ExampleLayout
    /\ file = NoFile
    /\ op = "init"
    /\ out = None
    /\ rotations = 0
    /\ shed0 = layout.shed
    /\ NoCanvas

canvas_nearest_rect_point ==
    /\ geo.kind = "rect_point"
    /\ op' = "_nearest_rect_point_ft"
    /\ out' = _nearest_rect_point_ft(geo.A, geo.px, geo.py)
    /\ UNCHANGED <<layout, file, rotations, shed0, geo, canvasVars>>

export_nearest_rect_point ==
    /\ geo.kind = "rect_point"
    /\ op' = "nearest_rect_point_ft"
    /\ out' = nearest_rect_point_ft(geo.A, geo.px, geo.py)
    /\ UNCHANGED <<layout, file, rotations, shed0, geo, canvasVars>>

canvas_nearest_rect_rect ==
    /\ geo.kind = "rect_rect"
    /\ op' = "_nearest_rect_rect_ft"
    /\ out' = _nearest_rect_rect_ft(geo.A, geo.Bx)
    /\ UNCHANGED <<layout, file, rotations, shed0, geo, canvasVars>>

export_nearest_rect_rect ==
    /\ geo.kind = "rect_rect"
    /\ op' = "nearest_rect_rect_ft"
    /\ out' = nearest_rect_rect_ft(geo.A, geo.Bx)
    /\ UNCHANGED <<layout, file, rotations, shed0, geo, canvasVars>>

NextGeo ==
    \/ canvas_nearest_rect_point
    \/ export_nearest_rect_point
    \/ canvas_nearest_rect_rect
    \/ export_nearest_rect_rect

SpecGeo == InitGeo /\ [][NextGeo]_vars

-----------------------------------------------------------------------------
(* Claims on the geometry specification *)

\* squared distance between (x1, y1) and (x2, y2)
Dist2(x1, y1, x2, y2) == (x1 - x2) * (x1 - x2) + (y1 - y2) * (y1 - y2)


\* (x, y) lies inside or on the rectangle r
OnRect(r, x, y) == r[1] <= x /\ x <= r[3] /\ r[2] <= y /\ y <= r[4]

Corners(r) == {<<r[1], r[2]>>, <<r[1], r[4]>>, <<r[3], r[2]>>, <<r[3], r[4]>>}

\* the points of r on the grid of the inputs, its corners included
PointsOf(r) ==
    {p \in (GeoCoords \cup {r[1], r[3]}) \X (GeoCoords \cup {r[2], r[4]}) :
        OnRect(r, p[1], p[2])}

\* the size of the gap between two intervals, 0 when they meet
Gap(lo_a, hi_a, lo_b, hi_b) == Max(0, Max(lo_b - hi_a, lo_a - hi_b))

\* C8: for a rectangle with L <= R and T <= B and a point P, both copies of
\* the nearest-point function return (qx, qy, px, py) with (px, py) = P,
\* (qx, qy) inside or on the rectangle and no farther from P than any corner
\* of the rectangle is; for P inside the rectangle (qx, qy) = P.
C8_NearestRectPoint ==
    op \in {"_nearest_rect_point_ft", "nearest_rect_point_ft"} =>
        LET r == geo.A
        IN  /\ Len(out) = 4
            /\ out[3] = geo.px /\ out[4] = geo.py
            /\ OnRect(r, out[1], out[2])
            /\ \A c \in Corners(r) :
                  Dist2(out[1], out[2], geo.px, geo.py)
                      <= Dist2(c[1], c[2], geo.px, geo.py)
            /\ OnRect(r, geo.px, geo.py) => out[1] = geo.px /\ out[2] = geo.py

\* C8 witness: the point lies outside the rectangle, beyond its right edge and
\* below it, and the function returned the facing corner
C8_Witness ==
    /\ op = "nearest_rect_point_ft"
    /\ geo.px > geo.A[3] /\ geo.py > geo.A[4]
    /\ geo.A[1] < geo.A[3] /\ geo.A[2] < geo.A[4]
    /\ out[1] = geo.A[3] /\ out[2] = geo.A[4]

\* C9: for two well-formed rectangles that do not overlap on both axes
\* _nearest_rect_rect_ft returns a point of A and a point of B.  Separated on
\* one axis only, the segment is parallel to that axis, as long as the gap,
\* and inside the overlap of the other axis (A = (0,0,10,10), B = (20,0,30,10):
\* horizontal, length 10, y within [0,10]); separated on both axes it joins
\* the two facing corners.  No two points of A and B are closer together.
C9_NearestRectRect ==
    LET A  == geo.A
        Bx == geo.Bx
        gx == Gap(A[1], A[3], Bx[1], Bx[3])
        gy == Gap(A[2], A[4], Bx[2], Bx[4])
    IN  (op = "_nearest_rect_rect_ft" /\ (gx > 0 \/ gy > 0)) =>
            /\ Len(out) = 4
            /\ OnRect(A, out[1], out[2])
            /\ OnRect(Bx, out[3], out[4])
            /\ (gx > 0 /\ gy = 0) =>
                  /\ out[2] = out[4]
                  /\ Abs(out[1] - out[3]) = gx
                  /\ Max(A[2], Bx[2]) <= out[2] /\ out[2] <= Min(A[4], Bx[4])
            /\ (gy > 0 /\ gx = 0) =>
                  /\ out[1] = out[3]
                  /\ Abs(out[2] - out[4]) = gy
                  /\ Max(A[1], Bx[1]) <= out[1] /\ out[1] <= Min(A[3], Bx[3])
            /\ (gx > 0 /\ gy > 0) =>
                  /\ <<out[1], out[2]>> \in Corners(A)
                  /\ <<out[3], out[4]>> \in Corners(Bx)
                  /\ Abs(out[1] - out[3]) = gx /\ Abs(out[2] - out[4]) = gy
            /\ \A a \in PointsOf(A) : \A b \in PointsOf(Bx) :
                  Dist2(a[1], a[2], b[1], b[2])
                      >= Dist2(out[1], out[2], out[3], out[4])
            /\ (A = ExampleA /\ Bx = ExampleB) =>
                  /\ out[2] = out[4] /\ out[3] - out[1] = Ft(10)
                  /\ Ft(0) <= out[2] /\ out[2] <= Ft(10)

\* C9 witness: B lies to the left of A with a gap and shares part of A's
\* height, and the function returned a horizontal segment
C9_Witness ==
    /\ op = "_nearest_rect_rect_ft"
    /\ geo.Bx[3] < geo.A[1]
    /\ geo.A[2] < geo.Bx[4] /\ geo.Bx[2] < geo.A[2]
    /\ out[2] = out[4] /\ out[1] = geo.A[1] /\ out[3] = geo.Bx[3]

\* C10: for rectangles that overlap on both axes both copies of the
\* nearest-segment function return a vertical segment inside the overlap:
\* the endpoints have the same x, inside the x-overlap, and are distinct;
\* stated here for overlaps of positive width and height only, which have
\* room for a segment.
C10_OverlapSegment ==
    LET A  == geo.A
        Bx == geo.Bx
    IN  (/\ op \in {"_nearest_rect_rect_ft", "nearest_rect_rect_ft"}
         /\ Max(A[1], Bx[1]) < Min(A[3], Bx[3])
         /\ Max(A[2], Bx[2]) < Min(A[4], Bx[4])) =>
            /\ out[1] = out[3]
            /\ Max(A[1], Bx[1]) <= out[1] /\ out[1] <= Min(A[3], Bx[3])
            /\ out[2] # out[4]

-----------------------------------------------------------------------------
(* View specification: the window is open and is zoomed in and out *)

\* bound on the number of zoom_in and zoom_out calls
MaxZoom == 3
\* largest property extent, in feet, besides those of the examples
MaxProp == 3

\* a shed of 1 x 0.5 feet
ViewShed == RectangleObject("Shed", Some(Ft(1)), Some(2), Some(0), Some(0))

\* a property whose fitted scale is 10 pixels to the foot
RoundLayout ==
    LayoutData(Ft(102), Ft(102), Ft(78), Ft(78), None, ViewShed, None, None)

ViewLayouts ==
    {ExampleLayout, RoundLayout}
    \cup {LayoutData(Ft(f), Ft(f), Ft(l), Ft(l), None, ViewShed, None, None) :
            f \in 1..MaxProp, l \in 1..MaxProp}

InitView ==
    /\ layout \in ViewLayouts
    /\ file = to_dict(layout)
    /\ op = "init"
    /\ out = None
    /\ rotations = 0
    /\ shed0 = layout.shed
    /\ geo = NoGeo
    /\ view = LayoutCanvas(layout)
    /\ zooms = [ins |-> 0, outs |-> 0]
    /\ labels = None
    /\ drag = None

\* the scale after zoom_in
zoom_in_ratio(r) == FracMul(r, ZoomStep)

\* the scale after zoom_out
zoom_out_ratio_TimesNineTenths(r) == FracMul(r, Fraction(9, 10))

zoom_out_ratio(r) == FracDiv(r, ZoomStep)

\* LayoutCanvas.zoom_in, bound to "+" and "="; the redrawing of the items
\* leaves the state of this specification alone
zoom_in ==
    /\ zooms.ins + zooms.outs < MaxZoom
    /\ op' = "zoom_in"
    /\ out' = None
    /\ view' = update_canvas_dimensions(layout,
                  [view EXCEPT !.feet_to_pixel_ratio = zoom_in_ratio(@),
                               !.px_per_ft = zoom_in_ratio(view.feet_to_pixel_ratio)])
    /\ zooms' = [zooms EXCEPT !.ins = @ + 1]
    /\ UNCHANGED <<layout, file, rotations, shed0, geo, labels, drag>>

\* LayoutCanvas.zoom_out, bound to "-"
zoom_out ==
    /\ zooms.ins + zooms.outs < MaxZoom
    /\ op' = "zoom_out"
    /\ out' = None
    /\ view' = update_canvas_dimensions(layout,
                  [view EXCEPT !.feet_to_pixel_ratio = zoom_out_ratio(@),
                               !.px_per_ft = zoom_out_ratio(view.feet_to_pixel_ratio)])
    /\ zooms' = [zooms EXCEPT !.outs = @ + 1]
    /\ UNCHANGED <<layout, file, rotations, shed0, geo, labels, drag>>

NextView == zoom_in \/ zoom_out \/ rotate_shed \/ export_to_pdf

SpecView == InitView /\ [][NextView]_vars

-----------------------------------------------------------------------------
(* Claims of the view specification *)

\* the canvas was not zoomed since its construction
Unzoomed == zooms.ins = 0 /\ zooms.outs = 0

Exported == op = "export_to_pdf" /\ ~out.raised

\* the scale s shows the property within wide x high
Fits(s, L, wide, high) ==
    /\ FracLeq(FracMul(s, Feet(L.front)), wide)
    /\ FracLeq(FracMul(s, Feet(L.left)), high)

ExportFits ==
    Exported =>
        Fits(out.scale, layout,
             Fraction(page_width - 2 * margin, 1),
             Fraction(page_height - 2 * margin - legend_height, 1))

\* C15 as stated: the scale chosen at construction shows the property
\* within the 850 x 650 target, and the scale of the export shows it within
\* the page less its margins and legend strip
C15_Original ==
    /\ Unzoomed =>
          Fits(view.feet_to_pixel_ratio, layout,
               Fraction(canvas_display_width, 1), Fraction(canvas_display_height, 1))
    /\ ExportFits

\* C15: the scale chosen at construction shows the property within the
\* 850 x 650 target enlarged by ZOOM, that is within 1020 x 780, and the
\* scale of the export shows it within the page less its margins and
\* legend strip
C15_ScaleFit ==
    /\ Unzoomed =>
          Fits(view.feet_to_pixel_ratio, layout,
               FracMul(Fraction(canvas_display_width, 1), ZOOM),
               FracMul(Fraction(canvas_display_height, 1), ZOOM))
    /\ ExportFits

C15_Witness ==
    /\ Unzoomed /\ Exported
    /\ layout.front > layout.left
    /\ FracMul(view.feet_to_pixel_ratio, Feet(layout.front))
          = FracMul(Fraction(canvas_display_width, 1), ZOOM)

RECURSIVE FracPow(_, _)
FracPow(f, k) ==
    IF k = 0 THEN Fraction(1, 1)
    ELSE IF k > 0 THEN FracMul(f, FracPow(f, k - 1))
    ELSE FracDiv(FracPow(f, k + 1), f)

\* C16: a zoom step leaves the layout and its file alone, and after any
\* zoom steps the scale is the scale of construction times 1.1 to the
\* (zoom_in calls - zoom_out calls), px_per_ft equals feet_to_pixel_ratio
\* and the canvas has the size of the property at that scale
C16_Zoom ==
    /\ [](/\ view.feet_to_pixel_ratio
               = FracMul(LayoutCanvas_Scale(layout),
                         FracPow(ZoomStep, zooms.ins - zooms.outs))
          /\ view.px_per_ft = view.feet_to_pixel_ratio
          /\ view.canvas_width
               = IntOf(FracMul(Feet(layout.front), view.feet_to_pixel_ratio))
          /\ view.canvas_height
               = IntOf(FracMul(Feet(layout.left), view.feet_to_pixel_ratio)))
    /\ [][op' \in {"zoom_in", "zoom_out"} =>
             /\ layout' = layout /\ file' = file
             /\ zooms'.ins + zooms'.outs = zooms.ins + zooms.outs + 1]_vars

C16_Witness ==
    /\ op = "zoom_out"
    /\ zooms.ins = 2 /\ zooms.outs = 1
    /\ rotations > 0

-----------------------------------------------------------------------------
(* layout_canvas.py: distance guides and the placement of their labels.    *)
(* Canvas coordinates are integers in thousandths of a pixel, Px(1) =      *)
(* 1000, which holds the factor 0.707 of the diagonal candidates exactly.  *)
(* The segments of the model are horizontal, vertical or of length zero    *)
(* (and the offsets of the diagonal candidates have equal legs), so the    *)
(* unit vectors are exact; Hypot has no value for any other segment.       *)

Px(n) == 1000 * n

\* LayoutCanvas.feet_to_pixels of t ticks
feet_to_pixels(v, t) ==
    LET f == FracMul(Fraction(250 * t, 1), v.feet_to_pixel_ratio)
    IN  f[1] \div f[2]

_canvas_bbox_for_rect(L, v, obj) ==
    IF obj = None \/ obj.x = None \/ obj.y = None
       \/ obj.width = None \/ obj.height = None
    THEN None
    ELSE LET x1 == feet_to_pixels(v, Val(obj.x)) + Px(MARGIN_PX)
             y1 == feet_to_pixels(v, L.left - Val(obj.y) - Val(obj.height))
                      + Px(MARGIN_PX)
             x2 == x1 + feet_to_pixels(v, Val(obj.width))
             y2 == y1 + feet_to_pixels(v, Val(obj.height))
         IN  <<Min(x1, x2), Min(y1, y2), Max(x1, x2), Max(y1, y2)>>

\* the radius of a drawn point, in pixels
r_px == 6

_canvas_bbox_for_point(L, v, obj) ==
    IF obj = None \/ obj.x = None \/ obj.y = None
    THEN None
    ELSE LET x == feet_to_pixels(v, Val(obj.x)) + Px(MARGIN_PX)
             y == feet_to_pixels(v, L.left - Val(obj.y)) + Px(MARGIN_PX)
         IN  <<x - Px(r_px), y - Px(r_px), x + Px(r_px), y + Px(r_px)>>

_inflate(bb, pad) == <<bb[1] - pad, bb[2] - pad, bb[3] + pad, bb[4] + pad>>

_bbox_intersects(a, b) ==
    ~(a[3] < b[1] \/ a[1] > b[3] \/ a[4] < b[2] \/ a[2] > b[4])

\* the width of the gutters along the canvas edges, in pixels
gutter_margin == 4

\* the boxes of the placed objects: house, shed, well, septic
ObjectBoxes(L, v) ==
    SelectSeq(<<_canvas_bbox_for_rect(L, v, L.house),
                _canvas_bbox_for_rect(L, v, L.shed),
                _canvas_bbox_for_point(L, v, L.well),
                _canvas_bbox_for_point(L, v, L.septic)>>,
              LAMBDA bb : bb # None)

\* the four gutters: left, right, top, bottom
Gutters(v) ==
    LET W == Px(v.canvas_width + MARGIN_PX)
        H == Px(v.canvas_height + MARGIN_PX)
        m == Px(gutter_margin)
    IN  <<<<-m, -m, 0, H + m>>,
          <<W, -m, W + m, H + m>>,
          <<-m, -m, W + m, 0>>,
          <<-m, H, W + m, H + m>>>>

_collect_avoidance_bboxes(L, v) == ObjectBoxes(L, v) \o Gutters(v)

_segment_midpoint(p1, p2) ==
    <<(p1[1] + p2[1]) \div 2, (p1[2] + p2[2]) \div 2>>

\* math.hypot
Hypot(dx, dy) ==
    CASE dy = 0 -> Abs(dx)
      [] dx = 0 -> Abs(dy)
      [] Abs(dx) = Abs(dy) -> (Abs(dx) * 14142 + 5000) \div 10000

\* L = math.hypot(dx, dy) or 1.0
SegLen(p1, p2) ==
    LET h == Hypot(p2[1] - p1[1], p2[2] - p1[2])
    IN  IF h = 0 THEN Px(1) ELSE h

\* the unit vectors, in thousandths: perpendicular to the segment, along it
_unit_perp(p1, p2) ==
    LET L == SegLen(p1, p2)
    IN  <<(-(p2[2] - p1[2]) * 1000) \div L, ((p2[1] - p1[1]) * 1000) \div L>>

unit_along(p1, p2) ==
    LET L == SegLen(p1, p2)
    IN  <<((p2[1] - p1[1]) * 1000) \div L, ((p2[2] - p1[2]) * 1000) \div L>>

\* the padded box of a label centred at center_xy; the box measured for
\* the hidden text item is the 40 x 20 box of the code
_measure_text_bbox(center_xy, pad) ==
    _inflate(<<center_xy[1] - Px(20), center_xy[2] - Px(10),
               center_xy[1] + Px(20), center_xy[2] + Px(10)>>, Px(pad))

\* the padding of a label box, in pixels
label_pad == 4

\* the segment's own tight box
seg_bb(p1, p2) ==
    <<Min(p1[1], p2[1]) - Px(2), Min(p1[2], p2[2]) - Px(2),
      Max(p1[1], p2[1]) + Px(2), Max(p1[2], p2[2]) + Px(2)>>

\* hit that tests the segment's own box alone
hit_OwnOnly(candidate_bbox, avoid, own) ==
    _bbox_intersects(candidate_bbox, own)

\* hit of _place_label_for_segment; own is the segment's own tight box
hit(candidate_bbox, avoid, own) ==
    \/ \E i \in 1..Len(avoid) : _bbox_intersects(candidate_bbox, avoid[i])
    \/ _bbox_intersects(candidate_bbox, own)

\* the spiral: radii step, 2 step, ... up to max_radius, in pixels
step == 6
max_radius == 60

\* the candidates with the one against the perpendicular tried first
candidate_MinusFirst(mid, u, w, radius, k) ==
    CASE k = 1 -> <<mid[1] - u[1] * radius, mid[2] - u[2] * radius>>
      [] k = 2 -> <<mid[1] + u[1] * radius, mid[2] + u[2] * radius>>
      [] k = 3 -> <<mid[1] + w[1] * radius, mid[2] + w[2] * radius>>
      [] k = 4 -> <<mid[1] - w[1] * radius, mid[2] - w[2] * radius>>
      [] k = 5 -> <<mid[1] + ((u[1] + w[1]) * radius * 707) \div 1000,
                    mid[2] + ((u[2] + w[2]) * radius * 707) \div 1000>>
      [] k = 6 -> <<mid[1] + ((u[1] - w[1]) * radius * 707) \div 1000,
                    mid[2] + ((u[2] - w[2]) * radius * 707) \div 1000>>
      [] k = 7 -> <<mid[1] + ((-u[1] + w[1]) * radius * 707) \div 1000,
                    mid[2] + ((-u[2] + w[2]) * radius * 707) \div 1000>>
      [] k = 8 -> <<mid[1] + ((-u[1] - w[1]) * radius * 707) \div 1000,
                    mid[2] + ((-u[2] - w[2]) * radius * 707) \div 1000>>

\* the k-th of the eight candidates of one radius, in the order they are
\* tried: across the segment, along it, then the four diagonals
candidate(mid, u, w, radius, k) ==
    CASE k = 1 -> <<mid[1] + u[1] * radius, mid[2] + u[2] * radius>>
      [] k = 2 -> <<mid[1] - u[1] * radius, mid[2] - u[2] * radius>>
      [] k = 3 -> <<mid[1] + w[1] * radius, mid[2] + w[2] * radius>>
      [] k = 4 -> <<mid[1] - w[1] * radius, mid[2] - w[2] * radius>>
      [] k = 5 -> <<mid[1] + ((u[1] + w[1]) * radius * 707) \div 1000,
                    mid[2] + ((u[2] + w[2]) * radius * 707) \div 1000>>
      [] k = 6 -> <<mid[1] + ((u[1] - w[1]) * radius * 707) \div 1000,
                    mid[2] + ((u[2] - w[2]) * radius * 707) \div 1000>>
      [] k = 7 -> <<mid[1] + ((-u[1] + w[1]) * radius * 707) \div 1000,
                    mid[2] + ((-u[2] + w[2]) * radius * 707) \div 1000>>
      [] k = 8 -> <<mid[1] + ((-u[1] - w[1]) * radius * 707) \div 1000,
                    mid[2] + ((-u[2] - w[2]) * radius * 707) \div 1000>>

\* the i-th candidate of the whole search, i in 1..NumCandidates
NumCandidates == 8 * (max_radius \div step)

Candidate(p1, p2, i) ==
    candidate(_segment_midpoint(p1, p2), _unit_perp(p1, p2), unit_along(p1, p2),
              step * (((i - 1) \div 8) + 1), ((i - 1) % 8) + 1)

\* l * m / d to the nearest thousandth of a pixel
Along(l, m, d) ==
    LET q == (Abs(l) * m + d \div 2) \div d
    IN  IF l >= 0 THEN q ELSE -q

\* the leader of a label placed at best, away from the midpoint
leader_start(p1, p2, best) ==
    LET mid == _segment_midpoint(p1, p2)
        leader_len == Min(18, Max(10, (8 * SegLen(p1, p2)) \div 100000))
        lx == best[1] - mid[1]
        ly == best[2] - mid[2]
        h  == Hypot(lx, ly)
        d  == IF h = 0 THEN Px(1) ELSE h
        m  == Min(Px(leader_len), d)
    IN  <<mid[1] + Along(lx, m, d), mid[2] + Along(ly, m, d)>>

\* no candidate is clear: the label stays on the midpoint, with a leader stub
fallback_placement_Unrecorded(mid, padded, placed) ==
    [placement |-> [pos |-> mid, leader_start |-> mid, leader_end |-> mid,
                    needs_leader |-> TRUE],
     placed    |-> placed]

fallback_placement(mid, padded, placed) ==
    [placement |-> [pos |-> mid, leader_start |-> mid, leader_end |-> mid,
                    needs_leader |-> TRUE],
     placed    |-> Append(placed, padded)]

\* the returned placement and _placed_label_bboxes with the appended box
RECURSIVE first_clear(_, _, _, _, _, _)

\* the search that takes a candidate without testing it
first_clear_Untested(mid, u, w, avoid, own, i) ==
    IF i > NumCandidates THEN 0 ELSE i

\* the index of the first clear candidate from the i-th on, 0 if none; i is
\* the index of the first candidate of a radius, and the eight candidates of
\* the radius are tested together
first_clear(mid, u, w, avoid, own, i) ==
    IF i > NumCandidates THEN 0
    ELSE LET radius == step * (((i - 1) \div 8) + 1)
             clear  == {k \in 1..8 :
                          ~hit(_measure_text_bbox(candidate(mid, u, w, radius, k),
                                                  label_pad), avoid, own)}
         IN  IF clear # {}
             THEN i - 1 + (CHOOSE k \in clear : \A j \in clear : k <= j)
             ELSE first_clear(mid, u, w, avoid, own, i + 8)

_place_label_for_segment(p1, p2, L, v, placed) ==
    LET mid    == _segment_midpoint(p1, p2)
        avoid  == _collect_avoidance_bboxes(L, v) \o placed
        own    == seg_bb(p1, p2)
        padded == _measure_text_bbox(mid, label_pad)
    IN  IF ~hit(padded, avoid, own)
        THEN [placement |-> [pos |-> mid, leader_start |-> mid,
                             leader_end |-> mid, needs_leader |-> FALSE],
              placed    |-> Append(placed, padded)]
        ELSE LET first == first_clear(mid, _unit_perp(p1, p2), unit_along(p1, p2),
                                      avoid, own, 1)
                 best  == Candidate(p1, p2, first)
             IN  IF first = 0
                 THEN fallback_placement(mid, padded, placed)
                 ELSE [placement |-> [pos |-> best,
                                      leader_start |-> leader_start(p1, p2, best),
                                      leader_end |-> best, needs_leader |-> TRUE],
                       placed    |-> Append(placed,
                                            _measure_text_bbox(best, label_pad))]

\* the loop of render_distance_labels from its i-th segment on
RECURSIVE PlaceFrom(_, _, _, _, _)
PlaceFrom(acc, segments, i, L, v) ==
    IF i > Len(segments) THEN acc
    ELSE LET r == _place_label_for_segment(segments[i].p1, segments[i].p2,
                                           L, v, acc.placed)
         IN  PlaceFrom([acc EXCEPT !.placed = r.placed,
                                   !.drawn = Append(@, r.placement)],
                       segments, i + 1, L, v)

\* render_distance_labels: the labels kept from before are old
render_distance_labels_KeepsPlaced(segments, L, v, old) ==
    PlaceFrom([placed |-> old.placed, drawn |-> <<>>, segments |-> segments],
              segments, 1, L, v)

render_distance_labels(segments, L, v, old) ==
    PlaceFrom([placed |-> <<>>, drawn |-> <<>>, segments |-> segments],
              segments, 1, L, v)

center_of_bbox(bb) == <<(bb[1] + bb[3]) \div 2, (bb[2] + bb[4]) \div 2>>

Segment(p1, p2, to) == [p1 |-> p1, p2 |-> p2, to |-> to]

\* the segments redraw_distance_guides collects: from the centre of the
\* shed to the centres of well, septic and house, then to the four lines
guide_segments(L, v) ==
    LET bb_shed   == _canvas_bbox_for_rect(L, v, L.shed)
        bb_house  == _canvas_bbox_for_rect(L, v, L.house)
        bb_well   == _canvas_bbox_for_point(L, v, L.well)
        bb_septic == _canvas_bbox_for_point(L, v, L.septic)
    IN  IF bb_shed = None THEN <<>>
        ELSE LET shed_c  == center_of_bbox(bb_shed)
                 left_x  == Px(MARGIN_PX)
                 right_x == feet_to_pixels(v, L.right) + Px(MARGIN_PX)
                 back_y  == Px(MARGIN_PX)
                 front_y == feet_to_pixels(v, L.left) + Px(MARGIN_PX)
             IN  (IF bb_well = None THEN <<>>
                  ELSE <<Segment(shed_c, center_of_bbox(bb_well), "well")>>)
                 \o (IF bb_septic = None THEN <<>>
                     ELSE <<Segment(shed_c, center_of_bbox(bb_septic), "septic")>>)
                 \o (IF bb_house = None THEN <<>>
                     ELSE <<Segment(shed_c, center_of_bbox(bb_house), "house")>>)
                 \o <<Segment(shed_c, <<left_x, shed_c[2]>>, "left"),
                      Segment(shed_c, <<right_x, shed_c[2]>>, "right"),
                      Segment(shed_c, <<shed_c[1], back_y>>, "back"),
                      Segment(shed_c, <<shed_c[1], front_y>>, "front")>>

-----------------------------------------------------------------------------
(* Label specification: the guides of an open window are redrawn, and      *)
(* render_distance_labels is called with segments of the caller            *)

\* number of grid steps of the endpoints of the caller's segments
MaxGrid == 1
\* the grid step and the first grid coordinate, in pixels
GridStep == 2 * MARGIN_PX
GridBase == 3 * MARGIN_PX

\* the shed is small or large; the other objects lie on the horizontal or
\* the vertical through its centre, so that every guide is axis-aligned
SmallShed(x) ==
    RectangleObject("Shed", Some(Ft(4)), Some(Ft(2)), Some(Ft(x)), Some(Ft(74)))

LargeShed ==
    RectangleObject("Shed", Some(Ft(20)), Some(Ft(12)), Some(0), Some(Ft(64)))

centre_x(s) == Val(s.x) + Half(Val(s.width))
centre_y(s) == Val(s.y) + Half(Val(s.height))

\* a layout with the shed alone, with a well below it, and with a well, a
\* septic tank and a house
LabelLayoutsOf(s) ==
    {[RoundLayout EXCEPT !.shed = s],
     [RoundLayout EXCEPT !.shed = s,
         !.well = PointObject("Well", Some(centre_x(s)), Some(centre_y(s) - Ft(4)))],
     [RoundLayout EXCEPT !.shed = s,
         !.well = PointObject("Well", Some(centre_x(s) + Ft(3)), Some(centre_y(s))),
         !.septic = PointObject("Septic Tank", Some(centre_x(s)),
                                Some(centre_y(s) - Ft(6))),
         !.house = RectangleObject("House", Some(Ft(6)), Some(Ft(4)),
                                   Some(centre_x(s) + Ft(5)),
                                   Some(centre_y(s) - Ft(2)))]}

LabelLayouts ==
    {[RoundLayout EXCEPT !.shed = None],
     [RoundLayout EXCEPT !.shed = RectangleObject("Shed", Some(Ft(4)), Some(Ft(2)),
                                                  None, None)]}
    \cup LabelLayoutsOf(SmallShed(-2)) \cup LabelLayoutsOf(SmallShed(6))
    \cup LabelLayoutsOf(LargeShed)

\* the grid points of a row and of a column through the first of them
GridPoints ==
    {<<Px(GridBase + GridStep * i), Px(GridBase)>> : i \in 0..MaxGrid}
    \cup {<<Px(GridBase), Px(GridBase + GridStep * j)>> : j \in 0..MaxGrid}

\* horizontal and vertical segments and segments of length zero
GridSegments ==
    {Segment(pq[1], pq[2], "caller") :
        pq \in {r \in GridPoints \X GridPoints :
                  r[1][1] = r[2][1] \/ r[1][2] = r[2][2]}}

\* one segment, or two that start at the first grid point
LabelInputs ==
    {<<a>> : a \in GridSegments}
    \cup {<<ab[1], ab[2]>> :
            ab \in {c \in GridSegments \X GridSegments :
                      /\ c[1].p1 = <<Px(GridBase), Px(GridBase)>>
                      /\ c[2].p1 = c[1].p1}}

InitLabel ==
    /\ layout \in LabelLayouts
    /\ file = to_dict(layout)
    /\ op = "init"
    /\ out = None
    /\ rotations = 0
    /\ shed0 = layout.shed
    /\ geo = NoGeo
    /\ view = LayoutCanvas(layout)
    /\ zooms = [ins |-> 0, outs |-> 0]
    /\ labels = render_distance_labels(guide_segments(layout, LayoutCanvas(layout)),
                                       layout, LayoutCanvas(layout),
                                       [placed |-> <<>>])
    /\ drag = None

\* LayoutCanvas.redraw_distance_guides, as set_show_distance_guides and
\* the scheduled redraws call it
redraw_distance_guides ==
    /\ op' = "redraw_distance_guides"
    /\ out' = None
    /\ labels' = render_distance_labels(guide_segments(layout, view),
                                        layout, view, labels)
    /\ UNCHANGED <<layout, file, rotations, shed0, geo, view, zooms, drag>>

\* LayoutCanvas.render_distance_labels, called with segments of the caller
render_labels ==
    /\ \E segments \in LabelInputs :
          labels' = render_distance_labels(segments, layout, view, labels)
    /\ op' = "render_distance_labels"
    /\ out' = None
    /\ UNCHANGED <<layout, file, rotations, shed0, geo, view, zooms, drag>>

NextLabel == redraw_distance_guides \/ render_labels

SpecLabel == InitLabel /\ [][NextLabel]_vars

-----------------------------------------------------------------------------
(* Claims of the label specification *)

\* the boxes the k-th segment of the last pass had to avoid: objects and
\* gutters, then the labels of the segments before it
FixedBoxes == _collect_avoidance_bboxes(layout, view)
EarlierBoxes(k) == SubSeq(labels.placed, 1, k - 1)

Seg(k) == labels.segments[k]
Mid(k) == _segment_midpoint(Seg(k).p1, Seg(k).p2)
MidBox(k) == _measure_text_bbox(Mid(k), label_pad)
OwnBox(k) == seg_bb(Seg(k).p1, Seg(k).p2)

Touches(bb, boxes) == \E i \in 1..Len(boxes) : _bbox_intersects(bb, boxes[i])

\* the padded box of the label as it was drawn
DrawnBox(k) == _measure_text_bbox(labels.drawn[k].pos, label_pad)

\* the midpoint and all the candidates of the k-th segment collide
Exhausted(k) ==
    /\ hit(MidBox(k), FixedBoxes \o EarlierBoxes(k), OwnBox(k))
    /\ \A i \in 1..NumCandidates :
          hit(_measure_text_bbox(Candidate(Seg(k).p1, Seg(k).p2, i), label_pad),
              FixedBoxes \o EarlierBoxes(k), OwnBox(k))

Segs == 1..Len(labels.segments)

\* C11: a label whose midpoint box intersects no object box, no gutter and
\* no label placed before it is put on the midpoint, without a leader (the
\* segment has a positive length)
C11_ClearMidpoint ==
    \A k \in Segs :
        /\ Seg(k).p1 # Seg(k).p2
        /\ ~Touches(MidBox(k), FixedBoxes \o EarlierBoxes(k))
        => /\ labels.drawn[k].pos = Mid(k)
           /\ ~labels.drawn[k].needs_leader

\* C12 as stated: a label whose midpoint box intersects an object box is
\* put where its padded box is outside all the boxes to avoid (objects,
\* gutters, the segment's own box, labels placed before), with a leader
C12_Original ==
    \A k \in Segs :
        /\ Seg(k).p1 # Seg(k).p2
        /\ Touches(MidBox(k), ObjectBoxes(layout, view))
        => /\ labels.drawn[k].needs_leader
           /\ ~hit(DrawnBox(k), FixedBoxes \o EarlierBoxes(k), OwnBox(k))

\* C12: a label whose midpoint box intersects an object box gets a leader,
\* and is put where its padded box is outside all the boxes to avoid
\* unless every candidate of the search collides, when it stays on the
\* midpoint
C12_Displaced ==
    \A k \in Segs :
        Touches(MidBox(k), ObjectBoxes(layout, view))
        => /\ labels.drawn[k].needs_leader
           /\ IF Exhausted(k)
              THEN labels.drawn[k].pos = Mid(k)
              ELSE ~hit(DrawnBox(k), FixedBoxes \o EarlierBoxes(k), OwnBox(k))

C12_Witness ==
    \E k \in Segs :
        /\ Seg(k).p1 # Seg(k).p2
        /\ Touches(MidBox(k), ObjectBoxes(layout, view))
        /\ ~Exhausted(k)
        /\ labels.drawn[k].pos # Mid(k)
        /\ ~hit(DrawnBox(k), FixedBoxes \o EarlierBoxes(k), OwnBox(k))

\* C13: every segment of a pass, one of length zero included, gets a
\* placement and adds exactly one box, the box of its label; when the
\* midpoint and all candidates collide the label is on the midpoint, with
\* needs_leader set, and the box added is the midpoint's
C13_NeverFails ==
    /\ Len(labels.drawn) = Len(labels.segments)
    /\ Len(labels.placed) = Len(labels.segments)
    /\ \A k \in Segs :
          /\ labels.placed[k] = DrawnBox(k)
          /\ Exhausted(k) =>
                /\ labels.drawn[k].pos = Mid(k)
                /\ labels.drawn[k].needs_leader
                /\ labels.drawn[k].leader_start = Mid(k)
                /\ labels.drawn[k].leader_end = Mid(k)
                /\ labels.placed[k] = MidBox(k)

C13_Witness ==
    /\ op = "render_distance_labels"
    /\ Len(labels.segments) = 2
    /\ Seg(1).p1 = Seg(1).p2
    /\ Exhausted(1)
    /\ ~Exhausted(2)

\* C14: a pass starts from an empty set of placed labels and takes the
\* segments in their order: the placement of the k-th segment is the one
\* a pass over the first k segments alone computes from the layout, and
\* the first segment is placed against the objects and gutters only
C14_PassOrder ==
    /\ \A k \in Segs :
          LET alone == render_distance_labels(SubSeq(labels.segments, 1, k),
                                              layout, view, [placed |-> <<>>])
          IN  /\ labels.drawn[k] = alone.drawn[k]
              /\ labels.placed[k] = alone.placed[k]
    /\ labels.segments # <<>> =>
          labels.drawn[1]
             = _place_label_for_segment(Seg(1).p1, Seg(1).p2, layout, view,
                                        <<>>).placement

C14_Witness ==
    /\ op = "render_distance_labels"
    /\ Len(labels.segments) = 2
    /\ Seg(1) = Seg(2)
    /\ Seg(1).p1 # Seg(1).p2
    /\ labels.drawn[1].pos # labels.drawn[2].pos
    /\ layout.shed # None /\ layout.shed.x # None

-----------------------------------------------------------------------------
(* Claims of the label specification: the search and the leader *)

\* everything the k-th label of the last pass had to avoid but its own
\* segment
Avoid(k) == FixedBoxes \o EarlierBoxes(k)

\* the directions of a ring in the order of the claim, as multiples of the
\* perpendicular and of the parallel unit vector
RingOrder ==
    <<<<1, 0>>, <<-1, 0>>, <<0, 1>>, <<0, -1>>,
      <<1, 1>>, <<1, -1>>, <<-1, 1>>, <<-1, -1>>>>

\* the i-th position of the claim's search around the k-th midpoint: ring
\* (i - 1) \div 8 + 1 of radius 6, 12, ..., direction (i - 1) % 8 + 1
Expected(k, i) ==
    LET u      == _unit_perp(Seg(k).p1, Seg(k).p2)
        w      == unit_along(Seg(k).p1, Seg(k).p2)
        radius == 6 * (((i - 1) \div 8) + 1)
        d      == RingOrder[((i - 1) % 8) + 1]
        f      == IF d[1] # 0 /\ d[2] # 0 THEN 707 ELSE 1000
    IN  <<Mid(k)[1] + ((d[1] * u[1] + d[2] * w[1]) * radius * f) \div 1000,
          Mid(k)[2] + ((d[1] * u[2] + d[2] * w[2]) * radius * f) \div 1000>>

ExpectedHit(k, i) ==
    hit(_measure_text_bbox(Expected(k, i), label_pad), Avoid(k), OwnBox(k))

\* C26: when the midpoint collides the label is put on the first position
\* without a collision among the 80 of the search, taken ring by ring at
\* radii 6, 12, ..., 60 and within a ring in the order +perpendicular,
\* -perpendicular, +parallel, -parallel, the four diagonals; with none the
\* search ends after the 80th and the label stays on the midpoint
C26_SearchOrder ==
    /\ NumCandidates = 80
    /\ \A k \in Segs :
          hit(MidBox(k), Avoid(k), OwnBox(k)) =>
             IF \A i \in 1..80 : ExpectedHit(k, i)
             THEN labels.drawn[k].pos = Mid(k)
             ELSE \E i \in 1..80 :
                     /\ labels.drawn[k].pos = Expected(k, i)
                     /\ ~ExpectedHit(k, i)
                     /\ \A j \in 1..(i - 1) : ExpectedHit(k, j)

\* a label found in a ring after the first and not in the first direction,
\* and a label found in the first direction
C26_Witness ==
    /\ \E k \in Segs : \E i \in 10..80 :
          /\ (i - 1) % 8 # 0
          /\ hit(MidBox(k), Avoid(k), OwnBox(k))
          /\ labels.drawn[k].pos = Expected(k, i)
          /\ \A j \in 1..(i - 1) : ExpectedHit(k, j)
    /\ \E k \in Segs : \E i \in 1..80 :
          /\ (i - 1) % 8 = 0
          /\ Seg(k).p1 # Seg(k).p2
          /\ labels.drawn[k].pos = Expected(k, i)
          /\ \A j \in 1..(i - 1) : ExpectedHit(k, j)

\* C27: a label displaced by the search has a leader from the midpoint of
\* its segment to the label, of a length that is not zero
C27_Leader ==
    \A k \in Segs :
        labels.drawn[k].pos # Mid(k) =>
            /\ labels.drawn[k].needs_leader
            /\ labels.drawn[k].leader_start = Mid(k)
            /\ labels.drawn[k].leader_end = labels.drawn[k].pos
            /\ labels.drawn[k].leader_start # labels.drawn[k].leader_end

\* the k-th label of the last pass was committed by the fallback
Fallback(k) == labels.drawn[k].needs_leader /\ labels.drawn[k].pos = Mid(k)

\* C30: in a pass, the padded box of a label committed without the fallback
\* intersects no label box committed before it, no object box and no
\* gutter; the boxes of such labels are pairwise disjoint
C30_LabelsDisjoint ==
    /\ \A k \in Segs :
          ~Fallback(k) => ~Touches(labels.placed[k], Avoid(k))
    /\ \A j \in Segs, k \in Segs :
          (j < k /\ ~Fallback(j) /\ ~Fallback(k)) =>
              ~_bbox_intersects(labels.placed[j], labels.placed[k])

\* the second of two equal segments, pushed off the place of the first, and
\* in the same pass a label after a fallback label
C30_Witness ==
    /\ op = "render_distance_labels"
    /\ Len(labels.segments) = 2
    /\ ~Fallback(1) /\ ~Fallback(2)
    /\ Seg(1) = Seg(2)
    /\ labels.drawn[1].pos # labels.drawn[2].pos
    /\ _bbox_intersects(DrawnBox(1), _measure_text_bbox(
          _place_label_for_segment(Seg(2).p1, Seg(2).p2, layout, view,
                                   <<>>).placement.pos, label_pad))

-----------------------------------------------------------------------------
(* Creation specification: a layout is entered in the new-layout dialog    *)
(* of gui_main_menu.py or at the console of main.py, then saved, shown     *)
(* and exported                                                            *)

\* largest number entered, in feet; the smallest is -1
MaxCreate == 2

CreateNums == {Ft(k) : k \in -1..MaxCreate}

CreateSheds ==
    {RectangleObject("Shed", Some(Ft(1)), Some(Ft(1)), Some(Ft(x)), Some(0)) :
        x \in 0..MaxCreate}

\* NewLayoutDialog._create: every field that is not empty and parses as a
\* float is accepted
_create(front, back, left, right, house, shed, well, septic) ==
    LayoutData(front, back, left, right, house, shed, well, septic)

\* main.get_layout_from_user: prompt_float accepts every float; the house
\* that is not included stays the 0 x 0 house at (0, 0)
get_layout_from_user(left, right, front, back, well, shed) ==
    LayoutData(front, back, left, right,
               RectangleObject("House", Some(0), Some(0), Some(0), Some(0)),
               shed, well, None)

\* LayoutCanvas.__init__ divides by the extents of the property
LayoutCanvasRaises(L) == L.front = 0 \/ L.left = 0

InitCreate ==
    /\ layout = None
    /\ file = NoFile
    /\ op = "init"
    /\ out = None
    /\ rotations = 0
    /\ shed0 = None
    /\ geo = NoGeo
    /\ NoCanvas

\* gui_main_menu.on_create_new: the dialog, the save, the export (whose
\* failure is logged) and the editor window (whose failure is logged)
on_create_new ==
    \E front \in CreateNums, left \in CreateNums, shed \in CreateSheds \cup {None} :
        LET new == _create(front, Ft(1), left, Ft(1), None, shed, None, None)
        IN  /\ layout' = new
            /\ file' = to_dict(new)
            /\ op' = "on_create_new"
            /\ out' = [saved    |-> TRUE,
                       exported |-> PdfPage(new),
                       canvas   |-> IF LayoutCanvasRaises(new)
                                    THEN "ZeroDivisionError" ELSE "opened"]
            /\ view' = IF LayoutCanvasRaises(new) THEN None ELSE LayoutCanvas(new)
            /\ shed0' = new.shed
            /\ UNCHANGED <<rotations, geo, zooms, labels, drag>>

\* main.main, choice 1: the console input, the save, the viewer window,
\* whose exception ends the program, then the export
console_create ==
    \E front \in CreateNums, left \in CreateNums, shed \in CreateSheds,
       well \in {None, PointObject("Well", Some(0), Some(0))} :
        LET new == get_layout_from_user(left, Ft(1), front, Ft(1), well, shed)
        IN  /\ layout' = new
            /\ file' = to_dict(new)
            /\ op' = "console_create"
            /\ out' = [saved    |-> TRUE,
                       exported |-> IF LayoutCanvasRaises(new)
                                    THEN None ELSE PdfPage(new),
                       canvas   |-> IF LayoutCanvasRaises(new)
                                    THEN "ZeroDivisionError" ELSE "opened"]
            /\ view' = IF LayoutCanvasRaises(new) THEN None ELSE LayoutCanvas(new)
            /\ shed0' = new.shed
            /\ UNCHANGED <<rotations, geo, zooms, labels, drag>>

NextCreate == on_create_new \/ console_create

SpecCreate == InitCreate /\ [][NextCreate]_vars

\* C17: a layout entered with front <= 0 or left <= 0 is rejected: none is
\* saved, passed to LayoutCanvas or passed to export_to_pdf
C17_ExtentsRejected ==
    /\ op \in {"on_create_new", "console_create"}
    /\ out.saved \/ out.canvas # "none" \/ out.exported # None
    => layout.front > 0 /\ layout.left > 0

-----------------------------------------------------------------------------
(* Guides specification: the window draws its objects and distance guides  *)
(* and the layout is exported, for layouts with absent, unplaced and       *)
(* placed objects                                                          *)

GuidePos == {Some(Ft(10 * p)) : p \in 1..MaxPos}

GuideSheds ==
    {None}
    \cup {RectangleObject("Shed", Some(Ft(4)), Some(Ft(2)), x, y) :
            x \in GuidePos \cup {None}, y \in GuidePos \cup {None}}

GuideHouses ==
    {None}
    \cup {RectangleObject("House", Some(Ft(6)), Some(Ft(4)), x, y) :
            x \in {None, Some(Ft(40))}, y \in {None, Some(Ft(30))}}

GuideWells ==
    {None}
    \cup {PointObject("Well", x, y) :
            x \in GuidePos \cup {None}, y \in {None, Some(Ft(60))}}

GuideSeptics ==
    {None, PointObject("Septic Tank", Some(Ft(50)), None),
           PointObject("Septic Tank", Some(Ft(50)), Some(Ft(20)))}

GuideLayouts ==
    {[RoundLayout EXCEPT !.house = h, !.shed = s, !.well = w, !.septic = p] :
        h \in GuideHouses, s \in GuideSheds, w \in GuideWells, p \in GuideSeptics}

InitGuides ==
    /\ layout \in GuideLayouts
    /\ file = to_dict(layout)
    /\ op = "init"
    /\ out = None
    /\ rotations = 0
    /\ shed0 = layout.shed
    /\ geo = NoGeo
    /\ view = LayoutCanvas(layout)
    /\ zooms = [ins |-> 0, outs |-> 0]
    /\ labels = None
    /\ drag = None

\* _draw_rect does arithmetic on the sides of a rectangle that has x and y
_draw_rect_raises(obj) ==
    /\ obj # None /\ obj.x # None /\ obj.y # None
    /\ obj.width = None \/ obj.height = None

\* LayoutCanvas.draw_objects: the objects, then redraw_distance_guides,
\* whose segments are guides, then _draw_shed_object_distances
draw_objects ==
    /\ op' = "draw_objects"
    /\ out' = IF _draw_rect_raises(layout.house) \/ _draw_rect_raises(layout.shed)
              THEN [raised |-> TRUE, guides |-> <<>>, objdist |-> <<>>]
              ELSE [raised  |-> _draw_shed_object_distances(layout).raised,
                    guides  |-> guide_segments(layout, view),
                    objdist |-> _draw_shed_object_distances(layout).lines]
    /\ UNCHANGED <<layout, file, rotations, shed0, geo, canvasVars>>

NextGuides == draw_objects \/ export_to_pdf

SpecGuides == InitGuides /\ [][NextGuides]_vars

-----------------------------------------------------------------------------
(* Claims of the guides specification *)

\* an object is absent, or unplaced: its x or its y is unset
Unplaced(obj) == obj = None \/ obj.x = None \/ obj.y = None

\* the objects a sequence of segments or lines leads to
Targets(lines) == {lines[i].to : i \in 1..Len(lines)}

\* the objects the shed is measured to: those that are placed, when the
\* shed is
Measured(L) ==
    IF Unplaced(L.shed) THEN {}
    ELSE {t \in {"well", "septic", "house"} : ~Unplaced(L[t])}

Lines4 == {"left", "right", "back", "front"}

\* C18: redraw_distance_guides, _draw_shed_object_distances and the
\* shed-distance block of the export raise no error for an absent or
\* unplaced house, well or septic and draw no segment or line to it, while
\* they draw those of the placed objects; for an absent or unplaced shed
\* they draw none (every rectangle here has its width and height)
C18_MissingSkipped ==
    /\ op = "draw_objects" =>
          /\ ~out.raised
          /\ Targets(out.guides)
                = IF Unplaced(layout.shed) THEN {} ELSE Measured(layout) \cup Lines4
          /\ Targets(out.objdist) = Measured(layout)
    /\ op = "export_to_pdf" =>
          /\ ~out.raised
          /\ Targets(out.objdist) = Measured(layout)

-----------------------------------------------------------------------------
(* Claims on the editing specification: the optional shed *)

\* C19: rotate_shed on a layout without a shed, or with a shed that is
\* unplaced, is skipped: it returns without raising and leaves the layout
\* as it was
C19_RotateOptional ==
    [][(op' = "rotate_shed" /\ Unplaced(layout.shed)) =>
           (out' = "return" /\ layout' = layout)]_vars

-----------------------------------------------------------------------------
(* layout_canvas.py: dragging an object                                    *)
(*                                                                         *)
(* drag holds drag_data (tag, offset_x, offset_y), the bounding box of     *)
(* the first canvas item of every drawn object (items), the flags          *)
(* show_distance_guides (show) and live_guide_updates (live), the timer    *)
(* that _guide_redraw_job refers to (job: "none", "armed" while its delay  *)
(* runs, "due", "stale" once it has run) and the timers pending in the     *)
(* event loop (timers: the callbacks queued at construction, the redraws   *)
(* armed and due, the delay remaining).  Three fields are history, not     *)
(* state of the program: total, the displacement of the items since        *)
(* on_drag_start, count, the number of drags begun, and idle, the time     *)
(* since the last pointer event.                                           *)

\* the largest excursion of a drag, in steps of the pointer, and the
\* number of drags
MaxDrag == 1
MaxDrags == 1

\* a step of the pointer: 5 pixels, half a foot at 10 pixels to the foot
DragStep == Px(MARGIN_PX) \div 4

FracSub(a, b) == Fraction(a[1] * b[2] - b[1] * a[2], a[2] * b[2])

\* round(f, 2) of Python, in hundredths: to the nearest, ties to even
Round2(f) ==
    LET n == 100 * f[1]
        q == n \div f[2]
        r == n - q * f[2]
    IN  IF 2 * r < f[2] THEN q
        ELSE IF 2 * r > f[2] THEN q + 1
        ELSE IF q % 2 = 0 THEN q ELSE q + 1

\* the ticks of a length of h hundredths of a foot
TicksOf(h) == (4 * h) \div 100

\* layout_data.role_for
role_for(name) ==
    CASE name \in {"House", "house"} -> "house"
      [] name \in {"Shed", "shed"} -> "shed"
      [] name \in {"Well", "well"} -> "well"
      [] name \in {"Septic Tank", "Septic", "septic"} -> "septic"

\* str.title of a tag
Title(tag) ==
    CASE tag = "house" -> "House"
      [] tag = "shed" -> "Shed"
      [] tag = "well" -> "Well"
      [] tag = "septic" -> "Septic"

\* LayoutCanvas.pixels_to_feet, from thousandths of a pixel to ticks
pixels_to_feet(v, px) ==
    LET px_per_ft == v.feet_to_pixel_ratio
        f == FracDiv(Fraction(4 * px, 1000), px_per_ft)
    IN  IF px_per_ft[1] = 0 THEN 0 ELSE IntOf(f)

\* the bounding boxes of the items that _draw_rect and _draw_point create
\* first: the rectangle of a rectangle object, the oval of a point
DrawnItems(L, v) ==
    LET bb(t) == IF t \in {"house", "shed"}
                 THEN _canvas_bbox_for_rect(L, v, L[t])
                 ELSE _canvas_bbox_for_point(L, v, L[t])
        drawn == {t \in {"house", "shed", "well", "septic"} :
                    /\ L[t] # None
                    /\ L[t].x # None /\ L[t].y # None
                    /\ role_for(L[t].name) = t}
    IN  [t \in drawn |-> bb(t)]

\* canvas.move(item, dx, dy)
move(bb, dx, dy) == <<bb[1] + dx, bb[2] + dy, bb[3] + dx, bb[4] + dy>>

\* LayoutData.update_object_position
update_object_position(L, name, x, y) ==
    LET r == role_for(name)
    IN  [L EXCEPT ![r] = [L[r] EXCEPT !.x = Some(x), !.y = Some(y)]]

DragShed == RectangleObject("Shed", Some(Ft(4)), Some(Ft(2)), Some(Ft(10)), Some(Ft(10)))
DragWell == PointObject("Well", Some(Ft(20)), Some(Ft(20)))
DragSeptic == PointObject("Septic Tank", Some(Ft(30)), Some(Ft(30)))

\* the 102 x 78 ft property with one object placed
DragLayouts ==
    {[RoundLayout EXCEPT !.shed = DragShed],
     [RoundLayout EXCEPT !.shed = None, !.well = DragWell],
     [RoundLayout EXCEPT !.shed = None, !.septic = DragSeptic]}

\* self.after(33, ...): the delay of the redraw that on_drag_move schedules,
\* in milliseconds
ThrottleMs == 33

\* the time that one step of elapse lets pass, in milliseconds
ElapseMs == (2 * ThrottleMs) \div 3

\* no timer is pending in the event loop
NoTimers == [init |-> 0, armed |-> 0, due |-> 0, remaining |-> 0]

\* the timers pending in the event loop
Pending(d) == d.timers.init + d.timers.armed + d.timers.due

\* self.after_cancel(self._guide_redraw_job): without effect on a timer that
\* has run
after_cancel(d) ==
    CASE d.job = "armed" -> [d EXCEPT !.timers.armed = @ - 1]
      [] d.job = "due"   -> [d EXCEPT !.timers.due = @ - 1]
      [] OTHER           -> d

\* if self._guide_redraw_job: self.after_cancel(self._guide_redraw_job)
\* self._guide_redraw_job = self.after(ms, self.redraw_distance_guides)
reschedule(d, ms) ==
    LET c == after_cancel(d)
    IN  IF ms = 0
        THEN [c EXCEPT !.timers.due = @ + 1, !.job = "due"]
        ELSE [c EXCEPT !.timers.armed = @ + 1, !.timers.remaining = ms, !.job = "armed"]

\* the segments and labels after redraw_distance_guides
redrawn(L, v, old) ==
    render_distance_labels(guide_segments(L, v), L, v, old)

\* the window has been open for a while: the guides are shown, no timer is
\* pending, live updates are as the View menu set them
InitDrag ==
    /\ layout \in DragLayouts
    /\ file = to_dict(layout)
    /\ op = "init"
    /\ out = None
    /\ rotations = 0
    /\ shed0 = layout.shed
    /\ geo = NoGeo
    /\ view = LayoutCanvas(layout)
    /\ zooms = [ins |-> 0, outs |-> 0]
    /\ labels = redrawn(layout, LayoutCanvas(layout), [placed |-> <<>>])
    /\ \E live \in BOOLEAN :
          drag = [tag |-> None, offset_x |-> 0, offset_y |-> 0,
                  items |-> DrawnItems(layout, LayoutCanvas(layout)),
                  show |-> TRUE, live |-> live,
                  job |-> "none", timers |-> NoTimers, idle |-> 0,
                  total |-> <<0, 0>>, count |-> 0]

\* LayoutCanvas.on_drag_start, the pointer pressed on the first item of tag
on_drag_start ==
    /\ drag.tag = None
    /\ drag.count < MaxDrags
    /\ \E tag \in DOMAIN drag.items, grip \in {Px(1), Px(3)} :
          LET bb    == drag.items[tag]
              event == [x |-> bb[1] + grip, y |-> bb[2] + grip]
          IN  drag' = [after_cancel(drag) EXCEPT
                                   !.job = "none",
                                   !.tag = Some(tag),
                                   !.offset_x = event.x - bb[1],
                                   !.offset_y = event.y - bb[2],
                                   !.idle = 0,
                                   !.total = <<0, 0>>,
                                   !.count = @ + 1]
    /\ op' = "on_drag_start"
    /\ out' = None
    /\ UNCHANGED <<layout, file, rotations, shed0, geo, view, zooms, labels>>

\* LayoutCanvas.on_drag_move, the pointer moved by (mx, my)
on_drag_move ==
    /\ drag.tag # None
    /\ \E mx, my \in {-DragStep, 0, DragStep} :
          LET tag   == Val(drag.tag)
              bbox  == drag.items[tag]
              event == [x |-> bbox[1] + drag.offset_x + mx,
                        y |-> bbox[2] + drag.offset_y + my]
              dx    == event.x - drag.offset_x - bbox[1]
              dy    == event.y - drag.offset_y - bbox[2]
              dfx   == pixels_to_feet(view, dx)
              dfy   == pixels_to_feet(view, dy)
              obj   == layout[tag]
              moved == [drag EXCEPT !.items[tag] = move(bbox, dx, dy),
                                    !.idle = 0,
                                    !.total = <<@[1] + dx, @[2] + dy>>]
          IN  /\ <<mx, my>> # <<0, 0>>
              /\ Abs(drag.total[1] + mx) <= MaxDrag * DragStep
              /\ Abs(drag.total[2] + my) <= MaxDrag * DragStep
              /\ layout' = IF obj # None /\ obj.x # None /\ obj.y # None
                           THEN [layout EXCEPT ![tag] =
                                   [obj EXCEPT !.x = Some(Val(obj.x) + dfx),
                                               !.y = Some(Val(obj.y) + dfy)]]
                           ELSE layout
              /\ drag' = IF drag.live /\ drag.show
                         THEN reschedule(moved, ThrottleMs)
                         ELSE moved
    /\ op' = "on_drag_move"
    /\ out' = None
    /\ UNCHANGED <<file, rotations, shed0, geo, view, zooms, labels>>

\* the position of the object of tag that on_drag_release derives from
\* the canvas, in hundredths of a foot
ReleasePosition(L, v, items, tag) ==
    LET bbox == items[tag]
        obj  == L[tag]
        new_center_x == FracDiv(Fraction(bbox[1] + bbox[3] - 2 * Px(MARGIN_PX), 2000),
                                v.feet_to_pixel_ratio)
        new_center_y == FracDiv(Fraction(bbox[2] + bbox[4] - 2 * Px(MARGIN_PX), 2000),
                                v.feet_to_pixel_ratio)
    IN  IF tag \in {"well", "septic"}
        THEN <<Round2(new_center_x),
               Round2(FracSub(Feet(L.left), new_center_y))>>
        ELSE <<Round2(FracSub(new_center_x, Fraction(Val(obj.width), 8))),
               Round2(FracSub(FracSub(Feet(L.left), new_center_y),
                              Fraction(Val(obj.height), 8)))>>

\* LayoutCanvas.on_drag_release with the position compared as written
on_drag_release ==
    /\ drag.tag # None
    /\ LET tag == Val(drag.tag)
           obj == layout[tag]
           new == ReleasePosition(layout, view, drag.items, tag)
           old == <<Round2(Feet(Val(obj.x))), Round2(Feet(Val(obj.y)))>>
           after == IF old = new THEN layout
                    ELSE update_object_position(layout, Title(tag),
                                                TicksOf(new[1]), TicksOf(new[2]))
       IN  /\ obj.x # None /\ obj.y # None
           /\ layout' = after
           /\ file' = IF old = new THEN file ELSE to_dict(after)
           /\ out' = [tag |-> tag, saved |-> old # new]
           /\ labels' = redrawn(after, view, labels)
    /\ drag' = [after_cancel(drag) EXCEPT !.tag = None, !.job = "none"]
    /\ op' = "on_drag_release"
    /\ UNCHANGED <<rotations, shed0, geo, view, zooms>>

\* the event loop runs a timer that is due: a callback that __init__ or
\* open_editor_window queued (set_show_distance_guides(True)), or the
\* redraw_distance_guides that _guide_redraw_job stands for; the handle
\* keeps its value
timer_fires ==
    /\ \E k \in {"init", "due"} :
          /\ drag.timers[k] > 0
          /\ drag' = IF k = "init"
                     THEN [drag EXCEPT !.timers.init = @ - 1, !.show = TRUE]
                     ELSE [drag EXCEPT !.timers.due = @ - 1,
                                       !.job = IF @ = "due" THEN "stale" ELSE @]
          /\ op' = IF k = "init" THEN "set_show_distance_guides"
                                 ELSE "redraw_distance_guides"
    /\ labels' = redrawn(layout, view, labels)
    /\ out' = None
    /\ UNCHANGED <<layout, file, rotations, shed0, geo, view, zooms>>

\* ElapseMs milliseconds pass without an event: a timer whose delay has run
\* out becomes due
elapse ==
    /\ ~(drag.idle >= ThrottleMs /\ drag.timers.armed = 0)
    /\ LET left == drag.timers.remaining - ElapseMs
           t    == [drag EXCEPT !.idle = Min(ThrottleMs, @ + ElapseMs)]
       IN  drag' = IF drag.timers.armed = 0 THEN t
                   ELSE IF left > 0 THEN [t EXCEPT !.timers.remaining = left]
                   ELSE [t EXCEPT !.timers.remaining = 0,
                                  !.timers.due = @ + drag.timers.armed,
                                  !.timers.armed = 0,
                                  !.job = IF @ = "armed" THEN "due" ELSE @]
    /\ op' = "elapse"
    /\ out' = None
    /\ UNCHANGED <<layout, file, rotations, shed0, geo, view, zooms, labels>>

NextDrag == on_drag_start \/ on_drag_move \/ on_drag_release \/ timer_fires \/ elapse

SpecDrag == InitDrag /\ [][NextDrag]_vars

-----------------------------------------------------------------------------
(* Claims of the drag specification *)

\* the position, in ticks, that the canvas item of tag stands for
CanvasPosition(tag) ==
    LET p == ReleasePosition(layout, view, drag.items, tag)
    IN  <<TicksOf(p[1]), TicksOf(p[2])>>

\* C20: after on_drag_release of a drag that displaced the object (by any
\* non-zero total, a purely horizontal one included) the layout has been
\* saved, the file equals to_dict of the layout in memory, and the dragged
\* object's (x, y) is the position of its canvas item
C20_DragCommitted ==
    (op = "on_drag_release" /\ drag.total # <<0, 0>>) =>
        /\ out.saved
        /\ file = to_dict(layout)
        /\ <<Val(layout[out.tag].x), Val(layout[out.tag].y)>> = CanvasPosition(out.tag)

-----------------------------------------------------------------------------
(* Claims on the editing specification: persistence of a rotation *)

\* C21: after rotate_shed has completed on a placed shed the layout file
\* equals the serialisation of the layout in memory
C21_RotationSaved ==
    (op = "rotate_shed" /\ out = "done") => file = to_dict(layout)

-----------------------------------------------------------------------------
(* Claims of the guides specification: the sides that drive the geometry *)

\* values of back and right to compare a layout with
OtherSides == {Ft(78), Ft(102), Ft(50)}

\* C22: only front and left drive geometry: a layout that differs from the
\* drawn or exported one in back and right alone gets the same scale and
\* canvas size, the same guide segments (whose lengths are the labels), the
\* same shed-to-object lines and the same exported page
C22_FrontLeftOnly ==
    \A b \in OtherSides, r \in OtherSides :
       LET L2 == [layout EXCEPT !.back = b, !.right = r]
       IN  /\ (op = "draw_objects" /\ ~out.raised) =>
                 /\ LayoutCanvas(L2) = view
                 /\ guide_segments(L2, LayoutCanvas(L2)) = out.guides
                 /\ _draw_shed_object_distances(L2).lines = out.objdist
           /\ (op = "export_to_pdf") => PdfPage(L2) = out

-----------------------------------------------------------------------------
(* layout_canvas.py: the text of a guide's label *)

\* round() of a non-negative fraction to an integer, ties to even
RoundFrac(f) ==
    LET q == f[1] \div f[2]
        r == f[1] - q * f[2]
    IN  IF 2 * r < f[2] THEN q
        ELSE IF 2 * r > f[2] THEN q + 1
        ELSE IF q % 2 = 0 THEN q ELSE q + 1

\* add_segment of redraw_distance_guides: f"{d_feet:.1f} ft" of the segment
\* from p1 to p2, in tenths of a foot
segment_label(v, p1, p2) ==
    LET px_per_ft == v.feet_to_pixel_ratio
        d_feet    == FracDiv(Fraction(Hypot(p2[1] - p1[1], p2[2] - p1[2]), 1000),
                             px_per_ft)
    IN  RoundFrac(FracMul(Fraction(10, 1), d_feet))

-----------------------------------------------------------------------------
(* Claims of the guides specification: the boundary distances of the two   *)
(* views                                                                   *)

\* the label of the guide to a side among the segments of a redraw
GuideLabel(guides, side) ==
    LET i == CHOOSE j \in DOMAIN guides : guides[j].to = side
    IN  segment_label(view, guides[i].p1, guides[i].p2)

\* C23: for a layout with a placed shed the four shed-to-boundary values
\* labelled by the interactive view equal the four labelled by the export,
\* each the distance from the shed's edge to the property line of its side
C23_BoundaryLabelsAgree ==
    (op = "draw_objects" /\ ~out.raised /\ FullShed(layout)) =>
        LET page == PdfPage(layout)
            s    == layout.shed
        IN  /\ ~page.raised
            /\ GuideLabel(out.guides, "left") = page.dim.Left
            /\ GuideLabel(out.guides, "right") = page.dim.Right
            /\ GuideLabel(out.guides, "back") = page.dim.Back
            /\ GuideLabel(out.guides, "front") = page.dim.Front
            /\ page.dim.Left = fmt1(Val(s.x))
            /\ page.dim.Right = fmt1(layout.front - Val(s.x) - Val(s.width))
            /\ page.dim.Back = fmt1(layout.left - Val(s.y) - Val(s.height))
            /\ page.dim.Front = fmt1(Val(s.y))

-----------------------------------------------------------------------------
(* Event-loop specification: the window from its construction on, its      *)
(* guide toggles, its timers and drags                                     *)

\* LayoutCanvas.set_show_distance_guides, as the View menu calls it
set_show_distance_guides ==
    /\ \E on \in BOOLEAN : drag' = [drag EXCEPT !.show = on]
    /\ labels' = redrawn(layout, view, labels)
    /\ op' = "set_show_distance_guides"
    /\ out' = None
    /\ UNCHANGED <<layout, file, rotations, shed0, geo, view, zooms>>

\* LayoutCanvas.set_live_guide_updates, as the View menu calls it
set_live_guide_updates ==
    /\ \E on \in BOOLEAN :
          drag' = IF on /\ drag.show
                  THEN reschedule([drag EXCEPT !.live = on], 0)
                  ELSE [drag EXCEPT !.live = on]
    /\ op' = "set_live_guide_updates"
    /\ out' = None
    /\ UNCHANGED <<layout, file, rotations, shed0, geo, view, zooms, labels>>

\* LayoutCanvas.request_guide_redraw
request_guide_redraw ==
    /\ drag' = reschedule(drag, 0)
    /\ op' = "request_guide_redraw"
    /\ out' = None
    /\ UNCHANGED <<layout, file, rotations, shed0, geo, view, zooms, labels>>

\* the callbacks queued when the window is created: one by
\* LayoutCanvas.__init__ (viewer, console), a second one by
\* open_editor_window (menu)
CreatedBy == [LayoutCanvas |-> 1, open_editor_window |-> 2]

\* the window has just been created; __init__ has drawn the objects, and
\* _draw_point has redrawn the guides, of which a layout without a shed has
\* none
InitLoop ==
    /\ layout = [RoundLayout EXCEPT !.shed = None, !.well = DragWell]
    /\ file = to_dict(layout)
    /\ op = "init"
    /\ out = None
    /\ rotations = 0
    /\ shed0 = layout.shed
    /\ geo = NoGeo
    /\ view = LayoutCanvas(layout)
    /\ zooms = [ins |-> 0, outs |-> 0]
    /\ labels = [placed |-> <<>>, drawn |-> <<>>, segments |-> <<>>]
    /\ \E by \in DOMAIN CreatedBy :
          drag = [tag |-> None, offset_x |-> 0, offset_y |-> 0,
                  items |-> DrawnItems(layout, LayoutCanvas(layout)),
                  show |-> FALSE, live |-> FALSE,
                  job |-> "none",
                  timers |-> [NoTimers EXCEPT !.init = CreatedBy[by]],
                  idle |-> 0, total |-> <<0, 0>>, count |-> 0]

NextLoop ==
    \/ set_show_distance_guides
    \/ set_live_guide_updates
    \/ request_guide_redraw
    \/ on_drag_start
    \/ on_drag_move
    \/ on_drag_release
    \/ timer_fires
    \/ elapse

SpecLoop == InitLoop /\ [][NextLoop]_vars

-----------------------------------------------------------------------------
(* Claims of the event-loop specification *)

\* C24: at every moment at most one guide redraw is pending in the event
\* loop, and each on_drag_move with live updates and guides on cancels the
\* pending redraw and schedules exactly one new one
C24_OnePending ==
    /\ [](Pending(drag) <= 1)
    /\ [][(op' = "on_drag_move" /\ drag.live /\ drag.show) =>
             (drag'.job = "armed" /\ Pending(drag') = 1)]_vars

-----------------------------------------------------------------------------
(* Claims of the drag specification: the layout during a drag *)

\* C28: after every on_drag_move the object's position in memory
\* corresponds to its moved canvas item under the drawing map of
\* _draw_rect and _draw_point, whatever the direction of the move
C28_MoveTracksCanvas ==
    (op = "on_drag_move") =>
        DrawnItems(layout, view)[Val(drag.tag)] = drag.items[Val(drag.tag)]

-----------------------------------------------------------------------------
(* Stream specification: a drag whose pointer events are less than         *)
(* ThrottleMs apart.  Time passes, the pointer keeps moving, and the event *)
(* loop runs the timers that are due.                                      *)

\* time passes, but less than ThrottleMs since the last pointer event
StreamElapse == elapse /\ drag'.idle < ThrottleMs

NextStream ==
    \/ on_drag_start
    \/ on_drag_move
    \/ set_live_guide_updates
    \/ timer_fires
    \/ StreamElapse

\* the window of InitDrag on the layout with the well alone
InitStream ==
    /\ InitDrag
    /\ layout = [RoundLayout EXCEPT !.shed = None, !.well = DragWell]

SpecStream ==
    /\ InitStream
    /\ [][NextStream]_vars
    /\ WF_vars(on_drag_start)
    /\ WF_vars(on_drag_move)
    /\ WF_vars(timer_fires)
    /\ WF_vars(StreamElapse)

\* C29: with live updates and guides on, a redraw of the guides eventually
\* executes while the stream of drag-move events goes on
C29_LiveRedraw ==
    [](drag.tag # None /\ drag.live /\ drag.show =>
          <>(op = "redraw_distance_guides" \/ ~drag.live))

-----------------------------------------------------------------------------
(* Claims on the geometry specification: the two copies of the helpers *)

\* the layout whose shed is the rectangle geo.A and whose house is the
\* rectangle geo.Bx, or whose well is the point (geo.px, geo.py)
GeoLayout ==
    LET H == layout.left
        AsRect(name, r) ==
            RectangleObject(name, Some(r[3] - r[1]), Some(r[4] - r[2]),
                            Some(r[1]), Some(H - r[4]))
    IN  IF geo.kind = "rect_rect"
        THEN [layout EXCEPT !.shed = AsRect("Shed", geo.A),
                            !.house = AsRect("House", geo.Bx)]
        ELSE [layout EXCEPT !.shed = AsRect("Shed", geo.A),
                            !.well = PointObject("Well", Some(geo.px),
                                                 Some(H - geo.py))]

\* C25: the interactive and the export copies of the feet-space geometry
\* agree: each helper returns what its copy returns, for rectangles that
\* overlap and for those that do not, and the shed-to-object segments
\* (their endpoints, hence their lengths) of _draw_shed_object_distances
\* are those of export_to_pdf
C25_CopiesAgree ==
    /\ op \in {"_nearest_rect_rect_ft", "nearest_rect_rect_ft"} =>
          /\ out = _nearest_rect_rect_ft(geo.A, geo.Bx)
          /\ out = nearest_rect_rect_ft(geo.A, geo.Bx)
    /\ op \in {"_nearest_rect_point_ft", "nearest_rect_point_ft"} =>
          /\ out = _nearest_rect_point_ft(geo.A, geo.px, geo.py)
          /\ out = nearest_rect_point_ft(geo.A, geo.px, geo.py)
    /\ op # "init" =>
          _draw_shed_object_distances(GeoLayout).lines
             = export_shed_distances(GeoLayout).lines

====
